---- MODULE Spec2Model ----
(***************************************************************************)
(* Model of the sync-and-normalize pipeline of the Discord issue           *)
(* dashboard: the SQLite storage layer (utils/db.py), the Google Sheets    *)
(* sync pipeline (scripts/sync_google_sheets.py) and a concurrent reader   *)
(* (the dashboard's queries).                                              *)
(*                                                                         *)
(* The issues table is a set of rows with a unique id; a row is a record   *)
(* over the columns of the INSERT statement.  Two of the eleven columns    *)
(* are modelled (id and progress): the others are handled by the same      *)
(* code, column by column.  Cell values are strings: a string of digits    *)
(* ("1", "2", "7") stands for the number, and the text made of the same    *)
(* digits is written in quotes ("'1'").                                    *)
(***************************************************************************)
EXTENDS Integers, Sequences, FiniteSets, TLC

\* ------------------------------------------------------------------ bounds
\* the longest batch of rows
MaxRows == 2
\* the number of calls the client makes
MaxCalls == 2
\* the longest batch of records handed to transform_data on its own
MaxRaw == 3

\* --------------------------------------------------------------- constants
MAX_RETRIES == 3
BASE_DELAY == 2

Procs == {1, 2}

\* the ids of the issues
Ids == {"1", "2"}
\* the values of the progress column
ProgressValues == {"done", "BLOCK"}

COLUMN_MAPPING == [ID |-> "id", Progress |-> "progress"]

columns == <<"id", "progress">>

\* the texts of the exceptions the stages raise
ErrFetch == "APIError"
ErrStorage == "sqlite3.OperationalError"

NoRecord == [kind |-> "none", rows |-> <<>>, n |-> 0]

NoReturn == [kind |-> "none", count |-> 0]

\* ---------------------------------------------------------------- helpers
\* dict.get(key, default)
Get(d, k, default) == IF k \in DOMAIN d THEN d[k] ELSE default

\* PROGRESS_MAPPING of utils/common.py
PROGRESS_MAPPING ==
  ("done" :> "Done") @@ ("Done" :> "Done") @@ ("DONE" :> "Done") @@
  ("in progress" :> "In Progress") @@ ("In Progress" :> "In Progress") @@
  ("In progress" :> "In Progress") @@ ("IN PROGRESS" :> "In Progress") @@
  ("pending" :> "Pending") @@ ("Pending" :> "Pending") @@ ("PENDING" :> "Pending") @@
  ("block" :> "Blocked") @@ ("Block" :> "Blocked") @@ ("blocked" :> "Blocked") @@
  ("Blocked" :> "Blocked") @@ ("BLOCKED" :> "Blocked")

\* the blanks that may stand around the text of a cell
Blanks == {"", " ", "  "}

\* the day and month numbers of the model and the ways a sheet writes them
Fields == {1, 2, 4, 12, 13, 23, 30, 31}
FieldTexts(n) ==
  CASE n = 1 -> {"01", "1"}
    [] n = 2 -> {"02", "2"}
    [] n = 4 -> {"04", "4"}
    [] n = 12 -> {"12"}
    [] n = 13 -> {"13"}
    [] n = 23 -> {"23"}
    [] n = 30 -> {"30"}
    [] OTHER -> {"31"}

\* the years of the model, written with four digits and with two
Years4 == {2026}
Years2 == {26, 99}
YearText(y) ==
  CASE y = 2026 -> "2026"
    [] y = 26 -> "26"
    [] OTHER -> "99"

\* three numbers with a separator, the year last or first
DateTexts ==
  {ta \o sep \o tb \o sep \o YearText(y) :
     ta \in UNION {FieldTexts(n) : n \in Fields},
     tb \in UNION {FieldTexts(n) : n \in Fields},
     sep \in {"/", "-"}, y \in Years4 \cup Years2}
  \cup
  {YearText(y) \o "-" \o ta \o "-" \o tb :
     ta \in UNION {FieldTexts(n) : n \in Fields},
     tb \in UNION {FieldTexts(n) : n \in Fields}, y \in Years4}

\* the texts of the model that have no blank at either end
Unpadded ==
  DOMAIN PROGRESS_MAPPING \cup {"", "BLOCK", "random_value", "not a date"}
  \cup DateTexts

\* str.strip() on any text made of blanks around one of the texts above
StripAny(s) ==
  IF s \in Unpadded THEN s
  ELSE IF \E t \in Unpadded : \E a, b \in Blanks : s = a \o t \o b
       THEN CHOOSE t \in Unpadded : \E a, b \in Blanks : s = a \o t \o b
       ELSE s

\* str.strip() on the cells of the model
Strip(s) ==
  CASE s = " BLOCK " -> "BLOCK"
    [] s = " done " -> "done"
    [] s = " " -> ""
    [] OTHER -> StripAny(s)

\* the numbers among the cell values
Numbers == {"1", "2", "7"}

\* Python's None
None == "None"

\* float("nan"), what pandas reads of an empty cell
NaN == "NaN"

\* pd.isna(value)
IsNa(v) == v \in {None, NaN}

\* isinstance(value, str)
IsStr(v) == v \notin Numbers \cup {None}

\* what a TEXT column stores of a value: a number becomes its decimal text
TextAffinity(v) ==
  CASE v = "1" -> "'1'"
    [] v = "2" -> "'2'"
    [] v = "7" -> "'7'"
    [] OTHER -> v

\* str(value): the decimal text of a number
Str(v) == IF v \in Numbers THEN TextAffinity(v) ELSE v

\* what the INTEGER PRIMARY KEY column stores of a value: a text that reads as an
\* integer becomes the integer
IntegerAffinity(v) ==
  CASE v = "'1'" -> "1"
    [] v = "'2'" -> "2"
    [] OTHER -> v

\* the INSERT accepts the id: any other value is a datatype mismatch
IdOk(v) == IntegerAffinity(v) \in Numbers

\* the integer an id cell holds (INTEGER PRIMARY KEY)
IdValue(c) ==
  CASE c = "1" -> 1
    [] c = "2" -> 2
    [] OTHER -> 0

Range(s) == {s[i] : i \in 1..Len(s)}

SeqsUpTo(S, n) == UNION {[1..k -> S] : k \in 0..n}

\* the records of the sheet, as worksheet.get_all_records() returns them: two
\* issues and a record whose ID cell is empty
RawRow ==
  {[ID |-> "1", Progress |-> " done "],
   [ID |-> "", Progress |-> "done"],
   [ID |-> "2", Progress |-> "BLOCK"]}
RawBatches == SeqsUpTo(RawRow, MaxRows)

\* records of any shape a sheet can hold: an ID cell of blanks, a record without
\* the Progress column or without the ID column, a number in a text column, a
\* column the mapping does not know, an ID that is None
LooseRaw ==
  RawRow \cup
  {[ID |-> " ", Progress |-> "done"],
   [ID |-> "2"],
   [Progress |-> "done"],
   [ID |-> "1", Progress |-> "7", Notes |-> "x"],
   [ID |-> None, Progress |-> " BLOCK "]}
LooseRawBatches == SeqsUpTo(LooseRaw, MaxRaw)

\* a canonical row, as the callers of the storage layer pass it
Item == [id : Ids, progress : ProgressValues]
ItemBatches == SeqsUpTo(Item, MaxRows)

\* rows as any caller may pass them: a number in a text field, an id given as
\* text, a missing field, a missing id
LooseItem ==
  {[id |-> "1", progress |-> "done"],
   [id |-> "1", progress |-> "7"],
   [id |-> "'2'", progress |-> "BLOCK"],
   [id |-> "2"],
   [progress |-> "done"]}
LooseBatches == SeqsUpTo(LooseItem, MaxRows)

\* ------------------------------------------------------------ transform
\* a test that lets the empty ID through
IsMissingNoneOnly(raw_id) == raw_id = None

\* if raw_id == "" or raw_id is None
IsMissing(raw_id) == raw_id = "" \/ raw_id = None

\* an item that takes the cells as they are
TransformRowUnstripped(row) ==
  [db_col \in {COLUMN_MAPPING[c] : c \in DOMAIN COLUMN_MAPPING} |->
     LET sheet_col == CHOOSE c \in DOMAIN COLUMN_MAPPING : COLUMN_MAPPING[c] = db_col
     IN Get(row, sheet_col, "")]

\* item = {}; for sheet_col, db_col in COLUMN_MAPPING.items(): value =
\* row.get(sheet_col, ""); a str is stripped; item[db_col] = value
TransformRow(row) ==
  [db_col \in {COLUMN_MAPPING[c] : c \in DOMAIN COLUMN_MAPPING} |->
     LET sheet_col == CHOOSE c \in DOMAIN COLUMN_MAPPING : COLUMN_MAPPING[c] = db_col
         value == Get(row, sheet_col, "")
     IN IF IsStr(value) THEN Strip(value) ELSE value]

\* the rows the loop skips (skipped += 1)
skipped(raw_data) ==
  Cardinality({i \in 1..Len(raw_data) : IsMissing(Get(raw_data[i], "ID", ""))})

RECURSIVE transform_data(_)
transform_data(raw_data) ==
  IF raw_data = <<>> THEN <<>>
  ELSE LET row == Head(raw_data)
           raw_id == Get(row, "ID", "")
       IN IF IsMissing(raw_id)
          THEN transform_data(Tail(raw_data))
          ELSE <<TransformRow(row)>> \o transform_data(Tail(raw_data))

\* ------------------------------------------------------------- SQL pieces
\* a tuple whose missing fields are None
RowOfNoDefault(item) == [col \in Range(columns) |-> Get(item, col, "None")]

\* rows = [tuple(item.get(col, "") for col in columns) for item in issues]
RowOf(item) == [col \in Range(columns) |-> Get(item, col, "")]

RowsOf(items) == [i \in 1..Len(items) |-> RowOf(items[i])]

\* the row as the columns of the table store it (id INTEGER PRIMARY KEY, the
\* others TEXT)
Stored(row) ==
  [col \in DOMAIN row |->
     IF col = "id" THEN IntegerAffinity(row[col]) ELSE TextAffinity(row[col])]

\* an INSERT OR IGNORE: the row already there with the id stays
InsertOrIgnore(table, row) ==
  IF \E r \in table : r.id = Stored(row).id THEN table ELSE table \cup {Stored(row)}

\* INSERT OR REPLACE INTO issues: the row takes the place of the one with its id
InsertOrReplace(table, row) ==
  {r \in table : r.id # Stored(row).id} \cup {Stored(row)}

\* cursor.executemany(sql, rows) run to its end on a table
RECURSIVE ExecuteMany(_, _)
ExecuteMany(table, rows) ==
  IF rows = <<>> THEN table
  ELSE ExecuteMany(InsertOrReplace(table, Head(rows)), Tail(rows))

\* SELECT * FROM issues ORDER BY id DESC
RECURSIVE OrderByIdDesc(_)
OrderByIdDesc(table) ==
  IF table = {} THEN <<>>
  ELSE LET top == CHOOSE r \in table :
                    \A q \in table : IdValue(q.id) <= IdValue(r.id)
       IN <<top>> \o OrderByIdDesc(table \ {top})

get_all_issues(table) == OrderByIdDesc(table)

get_issues_count(table) == Cardinality(table)

\* "SELECT * FROM sync_log ORDER BY sync_time DESC LIMIT 1": the rows the query
\* may return. sync_time is CURRENT_TIMESTAMP, a text that carries whole seconds;
\* the order of rows with the same sync_time is not fixed by the query.
get_last_sync(log) ==
  {log[i] : i \in {k \in 1..Len(log) :
                     \A j \in 1..Len(log) : log[j].sync_time <= log[k].sync_time}}

\* the columns of the WHERE clause of search_issues
SEARCH_COLUMNS ==
  {"issue", "category", "channel", "owner", "reply_approach", "problem_category"}

\* the keywords a user types, and the texts of the owner and issue columns
Keywords == {"", "ali", "ALI", "bob", "rocm", "Done", "_", "%"}
Owners == {"Alice", ""}
IssueTexts == {"ROCm crash", ""}

\* LIKE ignores the case of ASCII letters
Lower(s) ==
  CASE s = "ALI" -> "ali"
    [] s = "Alice" -> "alice"
    [] s = "ROCm crash" -> "rocm crash"
    [] s = "Done" -> "done"
    [] OTHER -> s

\* k occurs in v, for the texts above
Infix(k, v) ==
  \/ k = ""
  \/ k = v
  \/ (k = "ali" /\ v = "alice")
  \/ (k = "rocm" /\ v = "rocm crash")

\* column LIKE '%keyword%': never true of NULL; the keyword is put into the
\* pattern as it is, so a "%" in it matches any run of characters and a "_" any
\* one character
Like(v, keyword) ==
  /\ v # None
  /\ CASE keyword = "%" -> TRUE
       [] keyword = "_" -> v # ""
       [] OTHER -> Infix(Lower(keyword), Lower(v))

\* search_issues(keyword), over the columns the rows carry
search_issues(table, keyword) ==
  OrderByIdDesc({r \in table :
                   \E col \in SEARCH_COLUMNS \cap DOMAIN r : Like(r[col], keyword)})

\* "if category:" -- a condition is added for an argument that is given and not empty
Truthy(v) == v # None /\ v # ""

\* the texts of the date column and of the date arguments, in the order the
\* comparison of TEXT values gives (BINARY collation: byte by byte)
DateOrder == <<"01/23/2026", "01/24/2026", "12/01/2025">>

\* a <= b for two such texts
TextLeq(a, b) ==
  \E i \in 1..Len(DateOrder), j \in 1..Len(DateOrder) :
    DateOrder[i] = a /\ DateOrder[j] = b /\ i <= j

\* the columns filter_issues compares with "="
EQUALITY_COLUMNS == {"category", "progress", "owner", "problem_category"}

\* filter_issues(category, progress, owner, date_from, date_to, problem_category):
\* f maps the parameters to the arguments; "date >= ?" and "date <= ?" compare
\* the TEXT of the date column with the argument
filter_issues(table, f) ==
  OrderByIdDesc({r \in table :
                   /\ \A col \in EQUALITY_COLUMNS :
                        Truthy(f[col]) => col \in DOMAIN r /\ r[col] = f[col]
                   /\ Truthy(f.date_from) =>
                        "date" \in DOMAIN r /\ r.date # None /\ TextLeq(f.date_from, r.date)
                   /\ Truthy(f.date_to) =>
                        "date" \in DOMAIN r /\ r.date # None /\ TextLeq(r.date, f.date_to)})

\* the arguments of a filter_issues call
FilterArgs ==
  [category : {None}, progress : {None, "", "Done"}, owner : {None, "Alice"},
   problem_category : {None}, date_from : {None, "01/24/2026"},
   date_to : {None, "01/24/2026"}]

\* the texts of the progress and owner columns in the order of ORDER BY (BINARY
\* collation: by code point)
BinaryOrder ==
  <<"Alice", "BLOCK", "Blocked", "Done", "In Progress", "Pending", "Unknown", "done">>

\* get_unique_values(column): DISTINCT, NOT NULL, != '', ORDER BY column
get_unique_values(table, column) ==
  LET vals == {r[column] : r \in {q \in table : column \in DOMAIN q}} \ {None, ""}
      InVals(v) == v \in vals
      sorted == SelectSeq(BinaryOrder, InVals)
  IN [i \in 1..Len(sorted) |-> [value |-> sorted[i]]]

\* SELECT column, COUNT(*) FROM issues GROUP BY column, read into a dict
GroupCount(table, column) ==
  LET has == {r \in table : column \in DOMAIN r}
  IN [v \in {r[column] : r \in has} |->
        Cardinality({r \in has : r[column] = v})]

\* statistics whose problem_category group has no WHERE clause
get_statistics_unfiltered(table) ==
  [total |-> Cardinality(table),
   by_progress |-> GroupCount(table, "progress"),
   by_category |-> GroupCount(table, "category"),
   by_problem_category |-> GroupCount(table, "problem_category"),
   by_owner |-> GroupCount(table, "owner")]

\* get_statistics(): the dict it returns
get_statistics(table) ==
  [total |-> Cardinality(table),
   by_progress |-> GroupCount(table, "progress"),
   by_category |-> GroupCount(table, "category"),
   by_problem_category |->
     GroupCount({r \in table : "problem_category" \in DOMAIN r
                               /\ r["problem_category"] \notin {None, ""}},
                "problem_category"),
   by_owner |-> GroupCount(table, "owner")]

\* ------------------------------------------------------------------ state
VARIABLES
  issues,          \* the committed rows of the issues table
  sync_log,        \* the committed records of the sync_log table, in insertion order
  clock,           \* CURRENT_TIMESTAMP, as the last INSERT into sync_log saw it
  calls,           \* the number of calls the client has made
  lock,            \* the process holding the database's write lock, 0 when free
  pc,              \* where each process is
  caller,          \* who called safe_replace_issues: "sync" or "direct"
  raw_data,        \* sync(): the fetched records
  data,            \* the argument of safe_replace_issues (sync's transformed rows)
  tx,              \* the issues table as the open transaction of the process sees it
  idx,             \* the number of rows executemany has inserted
  attempt,         \* retry_on_error: the loop variable
  slept,           \* retry_on_error: the delays slept so far
  error_msg,       \* the text of the exception in flight or caught, "" when none
  sr_ret,          \* how safe_replace_issues ended, and the count it returned
  result,          \* how sync() ended: "none", "True", "False" or "raised"
  before_sync,     \* the issues table when sync() was called
  before_replace,  \* the issues table when safe_replace_issues was called
  log_before,      \* the sync_log table when sync() was called
  rd,              \* the reader's last query and its result
  schema,          \* the tables and the migrated column the database file has
  cache,           \* st.cache_resource's entry of _auto_sync_on_startup
  auto_runs,       \* how many times the body of _auto_sync_on_startup has started
  arg,             \* the argument of the helper of utils/common.py under call
  ret              \* what the helper returned

vars == <<issues, sync_log, clock, calls, lock, pc, caller, raw_data, data, tx, idx,
          attempt, slept, error_msg, sr_ret, result, before_sync, before_replace,
          log_before, rd, schema, cache, auto_runs, arg, ret>>

\* what the helpers of utils/common.py work on, and the dashboard's cache
fnVars == <<cache, auto_runs, arg, ret>>

auxVars == <<schema, cache, auto_runs, arg, ret>>

pipeVars == <<caller, raw_data, data, tx, idx, attempt, slept, error_msg, sr_ret,
              result, before_sync, before_replace, log_before>>

\* what the database file holds once init_database has run
CurrentSchema == {"issues", "problem_category", "sync_log"}

\* no helper of utils/common.py called yet
NoValue == [kind |-> "none"]

\* the two tables, empty
StoreEmpty ==
  /\ issues = {}
  /\ sync_log = <<>>
  /\ clock = 0
  /\ lock = 0

\* no process inside a call
ClientsIdle ==
  /\ pc = [p \in Procs |-> "idle"]
  /\ caller = [p \in Procs |-> "none"]
  /\ raw_data = [p \in Procs |-> <<>>]
  /\ data = [p \in Procs |-> <<>>]
  /\ tx = [p \in Procs |-> {}]
  /\ idx = [p \in Procs |-> 0]
  /\ attempt = [p \in Procs |-> 0]
  /\ slept = [p \in Procs |-> <<>>]
  /\ error_msg = [p \in Procs |-> ""]
  /\ sr_ret = [p \in Procs |-> NoReturn]
  /\ result = [p \in Procs |-> "none"]
  /\ before_sync = [p \in Procs |-> {}]
  /\ before_replace = [p \in Procs |-> {}]
  /\ log_before = [p \in Procs |-> <<>>]
  /\ rd = NoRecord
  /\ cache = "miss"
  /\ auto_runs = 0

\* no helper under call
NoHelperCall ==
  /\ arg = NoValue
  /\ ret = NoValue

Init ==
  /\ StoreEmpty
  /\ schema = CurrentSchema
  /\ calls = 0
  /\ ClientsIdle
  /\ NoHelperCall

\* ------------------------------------------------------- storage layer
\* CREATE TABLE IF NOT EXISTS issues: a new table has the problem_category column
CreateIssuesTable(s) ==
  IF "issues" \in s THEN s ELSE s \cup {"issues", "problem_category"}

\* ALTER TABLE issues ADD COLUMN problem_category: sqlite3.OperationalError when
\* the column is there
AddProblemCategory(s) ==
  IF "problem_category" \in s
  THEN [schema |-> s, raised |-> TRUE]
  ELSE [schema |-> s \cup {"problem_category"}, raised |-> FALSE]

\* CREATE TABLE IF NOT EXISTS sync_log
CreateSyncLogTable(s) == s \cup {"sync_log"}

\* a migration whose error leaves init_database
AfterMigrationRaises(s, raised) == IF raised THEN s ELSE CreateSyncLogTable(s)

\* except sqlite3.OperationalError: pass -- and the statements after the migration
AfterMigration(s, raised) == CreateSyncLogTable(s)

\* the schema init_database() leaves
init_database(s) ==
  LET migrated == AddProblemCategory(CreateIssuesTable(s))
  IN AfterMigration(migrated.schema, migrated.raised)

\* a schema step that drops and recreates the issues table
InitIssuesTableRecreates(table) == {}

\* CREATE TABLE IF NOT EXISTS issues / ALTER TABLE ADD COLUMN, on the existing table
InitIssuesTable(table) == table

\* a schema step that drops and recreates the ledger
InitSyncLogTableRecreates(log) == <<>>

\* CREATE TABLE IF NOT EXISTS sync_log, on the existing table
InitSyncLogTable(log) == log

\* INSERT INTO sync_log (rows_synced, status, message): id and sync_time are the
\* column defaults (AUTOINCREMENT, CURRENT_TIMESTAMP)
log_sync(log, now, rows_synced, status, message) ==
  Append(log, [id |-> Len(log) + 1, sync_time |-> now, rows_synced |-> rows_synced,
               status |-> status, message |-> message])

\* conn.commit(): the working copy of the transaction becomes the table
Commit(committed, working) == working

\* a rollback that leaves the changes of the transaction in the table
RollbackKeepsChanges(committed, working) == working

\* conn.rollback(): the working copy is dropped
Rollback(committed, working) == committed

Set(f, p, v) == [f EXCEPT ![p] = v]

\* the locals of a process, back to their values outside any call
ResetLocals(p) ==
  /\ caller' = Set(caller, p, "none")
  /\ raw_data' = Set(raw_data, p, <<>>)
  /\ data' = Set(data, p, <<>>)
  /\ tx' = Set(tx, p, {})
  /\ idx' = Set(idx, p, 0)
  /\ attempt' = Set(attempt, p, 0)
  /\ slept' = Set(slept, p, <<>>)
  /\ error_msg' = Set(error_msg, p, "")
  /\ sr_ret' = Set(sr_ret, p, NoReturn)
  /\ result' = Set(result, p, "none")
  /\ before_sync' = Set(before_sync, p, {})
  /\ before_replace' = Set(before_replace, p, {})
  /\ log_before' = Set(log_before, p, <<>>)

\* init_database(), called on its own
InitDatabase(p) ==
  /\ pc[p] = "idle"
  /\ calls < MaxCalls
  /\ calls' = calls + 1
  /\ schema' = init_database(schema)
  /\ issues' = InitIssuesTable(issues)
  /\ sync_log' = InitSyncLogTable(sync_log)
  /\ UNCHANGED <<clock, lock, pc, pipeVars, rd>>
  /\ UNCHANGED fnVars

\* clear_issues(): DELETE FROM issues and commit
ClearIssues(p) ==
  /\ pc[p] = "idle"
  /\ calls < MaxCalls
  /\ calls' = calls + 1
  /\ lock = 0
  /\ issues # {}
  /\ issues' = {}
  /\ UNCHANGED <<sync_log, clock, lock, pc, pipeVars, rd>>
  /\ UNCHANGED auxVars

\* insert_issues(issues): INSERT OR REPLACE every row and commit
InsertIssues(p) ==
  /\ pc[p] = "idle"
  /\ calls < MaxCalls
  /\ calls' = calls + 1
  /\ lock = 0
  /\ \E items \in ItemBatches :
       issues' = IF items = <<>> THEN issues
                 ELSE Commit(issues, ExecuteMany(issues, RowsOf(items)))
  /\ UNCHANGED <<sync_log, clock, lock, pc, pipeVars, rd>>
  /\ UNCHANGED auxVars

\* log_sync(rows_synced, status, message), called on its own (as the tests do)
LogSyncCall(p) ==
  /\ pc[p] = "idle"
  /\ calls < MaxCalls
  /\ calls' = calls + 1
  /\ lock = 0
  /\ \E now \in {clock, clock + 1} :
       /\ sync_log' = log_sync(sync_log, now, 3, "success", "Test sync")
       /\ clock' = now
  /\ UNCHANGED <<issues, lock, pc, pipeVars, rd>>
  /\ UNCHANGED auxVars

\* the arguments log_sync is called with: sync()'s two calls and the test's
LogSyncArgs ==
  [rows_synced : {0, 3}, status : {"success", "failed"},
   message : {"", "Test sync", ErrFetch}]

\* the places a storage fault can come from in log_sync
LogSyncFaults == {"none", "execute", "commit"}

\* a log_sync that catches the storage fault and returns
LogSyncSilent(p) ==
  /\ pc[p] = "idle"
  /\ calls < MaxCalls
  /\ calls' = calls + 1
  /\ lock = 0
  /\ \E a \in LogSyncArgs, fault \in LogSyncFaults :
       /\ arg' = [kind |-> "log_sync", v |-> a]
       /\ IF fault = "none"
          THEN \E now \in {clock, clock + 1} :
                 /\ sync_log' = log_sync(sync_log, now, a.rows_synced, a.status, a.message)
                 /\ clock' = now
                 /\ ret' = [kind |-> "log_sync", raised |-> FALSE]
          ELSE /\ ret' = [kind |-> "log_sync", raised |-> FALSE]
               /\ UNCHANGED <<sync_log, clock>>
  /\ UNCHANGED <<issues, lock, pc, pipeVars, rd, schema, cache, auto_runs>>

\* log_sync(rows_synced, status, message) with any arguments: the INSERT and the
\* commit run on a connection of their own; an exception of conn.execute or of
\* conn.commit leaves the with block (get_connection closes the connection, the
\* uncommitted INSERT is dropped) and reaches the caller
LogSync(p) ==
  /\ pc[p] = "idle"
  /\ calls < MaxCalls
  /\ calls' = calls + 1
  /\ lock = 0
  /\ \E a \in LogSyncArgs, fault \in LogSyncFaults :
       /\ arg' = [kind |-> "log_sync", v |-> a]
       /\ IF fault = "none"
          THEN \E now \in {clock, clock + 1} :
                 /\ sync_log' = log_sync(sync_log, now, a.rows_synced, a.status, a.message)
                 /\ clock' = now
                 /\ ret' = [kind |-> "log_sync", raised |-> FALSE]
          ELSE /\ ret' = [kind |-> "log_sync", raised |-> TRUE]
               /\ UNCHANGED <<sync_log, clock>>
  /\ UNCHANGED <<issues, lock, pc, pipeVars, rd, schema, cache, auto_runs>>

\* safe_replace_issues(issues) called on its own
SafeReplaceCall(p) ==
  /\ pc[p] = "idle"
  /\ calls < MaxCalls
  /\ calls' = calls + 1
  /\ \E items \in ItemBatches :
       data' = Set(data, p, items)
  /\ caller' = Set(caller, p, "direct")
  /\ before_replace' = Set(before_replace, p, issues)
  /\ pc' = Set(pc, p, "replace")
  /\ UNCHANGED <<issues, sync_log, clock, lock, raw_data, tx, idx, attempt, slept,
                 error_msg, sr_ret, result, before_sync, log_before, rd>>
  /\ UNCHANGED auxVars

\* safe_replace_issues(issues) called on its own, with rows of any shape
SafeReplaceLooseCall(p) ==
  /\ pc[p] = "idle"
  /\ calls < MaxCalls
  /\ calls' = calls + 1
  /\ \E items \in LooseBatches :
       data' = Set(data, p, items)
  /\ caller' = Set(caller, p, "direct")
  /\ before_replace' = Set(before_replace, p, issues)
  /\ pc' = Set(pc, p, "replace")
  /\ UNCHANGED <<issues, sync_log, clock, lock, raw_data, tx, idx, attempt, slept,
                 error_msg, sr_ret, result, before_sync, log_before, rd>>
  /\ UNCHANGED auxVars

\* where safe_replace_issues hands control back
\* a sync() that calls safe_replace_issues again when it raised
AfterReplaceRetries(p, raised) ==
  IF caller[p] = "sync"
  THEN IF raised THEN "replace" ELSE "log"
  ELSE "sr_done"

AfterReplace(p, raised) ==
  IF caller[p] = "sync"
  THEN IF raised THEN "except" ELSE "log"
  ELSE "sr_done"

\* safe_replace_issues without its empty-input return
SrEnterNoEmptyCheck(p) ==
  /\ pc[p] = "replace"
  /\ pc' = Set(pc, p, "sr_delete")
  /\ UNCHANGED <<issues, sync_log, clock, calls, lock, caller, raw_data, data, tx, idx,
                 attempt, slept, error_msg, sr_ret, result, before_sync, before_replace,
                 log_before, rd>>
  /\ UNCHANGED auxVars

\* safe_replace_issues: the empty-input return, else the connection is opened
SrEnter(p) ==
  /\ pc[p] = "replace"
  /\ IF data[p] = <<>>
     THEN /\ sr_ret' = Set(sr_ret, p, [kind |-> "returned", count |-> 0])
          /\ pc' = Set(pc, p, AfterReplace(p, FALSE))
     ELSE /\ pc' = Set(pc, p, "sr_delete")
          /\ UNCHANGED sr_ret
  /\ UNCHANGED <<issues, sync_log, clock, calls, lock, caller, raw_data, data, tx, idx,
                 attempt, slept, error_msg, result, before_sync, before_replace,
                 log_before, rd>>
  /\ UNCHANGED auxVars

\* a DELETE that is committed at once, as clear_issues() does
SrDeleteAutocommit(p) ==
  /\ pc[p] = "sr_delete"
  /\ lock = 0
  /\ lock' = p
  /\ issues' = {}
  /\ tx' = Set(tx, p, {})
  /\ idx' = Set(idx, p, 0)
  /\ pc' = Set(pc, p, "sr_insert")
  /\ UNCHANGED <<sync_log, clock, calls, caller, raw_data, data, attempt, slept,
                 error_msg, sr_ret, result, before_sync, before_replace, log_before, rd>>
  /\ UNCHANGED auxVars

\* a transaction that starts without the DELETE, as insert_issues() does
SrDeleteSkipped(p) ==
  /\ pc[p] = "sr_delete"
  /\ lock = 0
  /\ lock' = p
  /\ tx' = Set(tx, p, issues)
  /\ idx' = Set(idx, p, 0)
  /\ pc' = Set(pc, p, "sr_insert")
  /\ UNCHANGED <<issues, sync_log, clock, calls, caller, raw_data, data, attempt, slept,
                 error_msg, sr_ret, result, before_sync, before_replace, log_before, rd>>
  /\ UNCHANGED auxVars

\* cursor.execute("DELETE FROM issues"): opens the transaction, takes the write lock
SrDelete(p) ==
  /\ pc[p] = "sr_delete"
  /\ lock = 0
  /\ lock' = p
  /\ tx' = Set(tx, p, {})
  /\ idx' = Set(idx, p, 0)
  /\ pc' = Set(pc, p, "sr_insert")
  /\ UNCHANGED <<issues, sync_log, clock, calls, caller, raw_data, data, attempt, slept,
                 error_msg, sr_ret, result, before_sync, before_replace, log_before, rd>>
  /\ UNCHANGED auxVars

\* an INSERT that is committed at once
SrInsertAutocommit(p) ==
  /\ pc[p] = "sr_insert"
  /\ idx[p] < Len(data[p])
  /\ issues' = InsertOrReplace(issues, RowsOf(data[p])[idx[p] + 1])
  /\ idx' = Set(idx, p, idx[p] + 1)
  /\ UNCHANGED <<sync_log, clock, calls, lock, pc, caller, raw_data, data, tx, attempt,
                 slept, error_msg, sr_ret, result, before_sync, before_replace,
                 log_before, rd>>
  /\ UNCHANGED auxVars

\* cursor.executemany(sql, rows): one more row
SrInsert(p) ==
  /\ pc[p] = "sr_insert"
  /\ idx[p] < Len(data[p])
  /\ IdOk(RowsOf(data[p])[idx[p] + 1].id)
  /\ tx' = Set(tx, p, InsertOrReplace(tx[p], RowsOf(data[p])[idx[p] + 1]))
  /\ idx' = Set(idx, p, idx[p] + 1)
  /\ UNCHANGED <<issues, sync_log, clock, calls, lock, pc, caller, raw_data, data, attempt,
                 slept, error_msg, sr_ret, result, before_sync, before_replace,
                 log_before, rd>>
  /\ UNCHANGED auxVars

\* a commit followed by the return of the number of rows stored
SrCommitReturnsStored(p) ==
  /\ pc[p] = "sr_insert"
  /\ idx[p] = Len(data[p])
  /\ issues' = Commit(issues, tx[p])
  /\ lock' = 0
  /\ tx' = Set(tx, p, {})
  /\ sr_ret' = Set(sr_ret, p, [kind |-> "returned", count |-> Cardinality(tx[p])])
  /\ pc' = Set(pc, p, AfterReplace(p, FALSE))
  /\ UNCHANGED <<sync_log, clock, calls, caller, raw_data, data, idx, attempt, slept,
                 error_msg, result, before_sync, before_replace, log_before, rd>>
  /\ UNCHANGED auxVars

\* conn.commit(); return len(rows)
SrCommit(p) ==
  /\ pc[p] = "sr_insert"
  /\ idx[p] = Len(data[p])
  /\ issues' = Commit(issues, tx[p])
  /\ lock' = 0
  /\ tx' = Set(tx, p, {})
  /\ sr_ret' = Set(sr_ret, p, [kind |-> "returned", count |-> Len(RowsOf(data[p]))])
  /\ pc' = Set(pc, p, AfterReplace(p, FALSE))
  /\ UNCHANGED <<sync_log, clock, calls, caller, raw_data, data, idx, attempt, slept,
                 error_msg, result, before_sync, before_replace, log_before, rd>>
  /\ UNCHANGED auxVars

\* except Exception: conn.rollback(); raise -- the DELETE, an INSERT or the commit failed
SrFail(p) ==
  /\ pc[p] \in {"sr_delete", "sr_insert"}
  /\ issues' = Rollback(issues, tx[p])
  /\ lock' = IF lock = p THEN 0 ELSE lock
  /\ tx' = Set(tx, p, {})
  /\ error_msg' = Set(error_msg, p, ErrStorage)
  /\ sr_ret' = Set(sr_ret, p, [kind |-> "raised", count |-> 0])
  /\ pc' = Set(pc, p, AfterReplace(p, TRUE))
  /\ UNCHANGED <<sync_log, clock, calls, caller, raw_data, data, idx, attempt, slept,
                 result, before_sync, before_replace, log_before>>
  /\ UNCHANGED rd
  /\ UNCHANGED auxVars

\* the caller of safe_replace_issues has its answer
SrDone(p) ==
  /\ pc[p] = "sr_done"
  /\ pc' = Set(pc, p, "idle")
  /\ ResetLocals(p)
  /\ UNCHANGED <<issues, sync_log, clock, calls, lock, rd>>
  /\ UNCHANGED auxVars

\* ------------------------------------------------------------ pipeline
\* sync() is called
SyncStart(p) ==
  /\ pc[p] = "idle"
  /\ calls < MaxCalls
  /\ calls' = calls + 1
  /\ pc' = Set(pc, p, "init")
  /\ caller' = Set(caller, p, "sync")
  /\ before_sync' = Set(before_sync, p, issues)
  /\ log_before' = Set(log_before, p, sync_log)
  /\ UNCHANGED <<issues, sync_log, clock, lock, raw_data, data, tx, idx, attempt,
                 slept, error_msg, sr_ret, result, before_replace, rd>>
  /\ UNCHANGED auxVars

\* an init_database that leaves its connection inside a write transaction
SyncInitKeepsLock(p) ==
  /\ pc[p] = "init"
  /\ lock = 0
  /\ lock' = p
  /\ schema' = init_database(schema)
  /\ pc' = Set(pc, p, "fetch")
  /\ attempt' = Set(attempt, p, 0)
  /\ UNCHANGED <<issues, sync_log, clock, calls, caller, raw_data, data, tx, idx, slept,
                 error_msg, sr_ret, result, before_sync, before_replace, log_before, rd>>
  /\ UNCHANGED fnVars

\* init_database() inside sync(): it returns, or it raises into sync's handler
SyncInit(p) ==
  /\ pc[p] = "init"
  /\ \E ok \in BOOLEAN :
       IF ok
       THEN /\ schema' = init_database(schema)
            /\ issues' = InitIssuesTable(issues)
            /\ sync_log' = InitSyncLogTable(sync_log)
            /\ pc' = Set(pc, p, "fetch")
            /\ UNCHANGED error_msg
       ELSE /\ error_msg' = Set(error_msg, p, ErrStorage)
            /\ pc' = Set(pc, p, "except")
            /\ UNCHANGED <<issues, sync_log, schema>>
  /\ attempt' = Set(attempt, p, 0)
  /\ UNCHANGED <<clock, calls, lock, caller, raw_data, data, tx, idx, slept, sr_ret, result,
                 before_sync, before_replace, log_before, rd>>
  /\ UNCHANGED fnVars

\* a loop that calls func() without returning its value: it goes on to the next
\* iteration and returns nothing after the last one
FetchOkNoReturn(p) ==
  /\ pc[p] = "fetch"
  /\ IF attempt[p] = MAX_RETRIES - 1
     THEN /\ raw_data' = Set(raw_data, p, <<>>)
          /\ pc' = Set(pc, p, "transform")
          /\ UNCHANGED attempt
     ELSE /\ attempt' = Set(attempt, p, attempt[p] + 1)
          /\ UNCHANGED <<raw_data, pc>>
  /\ UNCHANGED <<issues, sync_log, clock, calls, lock, caller, data, tx, idx, slept,
                 error_msg, sr_ret, result, before_sync, before_replace, log_before, rd>>
  /\ UNCHANGED auxVars

\* retry_on_error: one attempt of _connect_and_fetch that returns the records
FetchOk(p) ==
  /\ pc[p] = "fetch"
  /\ \E records \in RawBatches : raw_data' = Set(raw_data, p, records)
  /\ pc' = Set(pc, p, "transform")
  /\ UNCHANGED <<issues, sync_log, clock, calls, lock, caller, data, tx, idx, attempt, slept,
                 error_msg, sr_ret, result, before_sync, before_replace, log_before, rd>>
  /\ UNCHANGED auxVars

\* a loop that sleeps after every failure and gives up one attempt later
FetchFailSleepsAlways(p) ==
  /\ pc[p] = "fetch"
  /\ IF attempt[p] = MAX_RETRIES
     THEN /\ error_msg' = Set(error_msg, p, ErrFetch)
          /\ pc' = Set(pc, p, "except")
          /\ UNCHANGED slept
     ELSE /\ slept' = Set(slept, p, Append(slept[p], BASE_DELAY * (2 ^ attempt[p])))
          /\ pc' = Set(pc, p, "sleep")
          /\ UNCHANGED error_msg
  /\ UNCHANGED <<issues, sync_log, clock, calls, lock, caller, raw_data, data, tx, idx,
                 attempt, sr_ret, result, before_sync, before_replace, log_before, rd>>
  /\ UNCHANGED auxVars

\* a loop whose last failure lets sync() go on with what it holds
FetchFailContinues(p) ==
  /\ pc[p] = "fetch"
  /\ IF attempt[p] = MAX_RETRIES - 1
     THEN /\ error_msg' = Set(error_msg, p, ErrFetch)
          /\ pc' = Set(pc, p, "transform")
          /\ UNCHANGED slept
     ELSE /\ slept' = Set(slept, p, Append(slept[p], BASE_DELAY * (2 ^ attempt[p])))
          /\ pc' = Set(pc, p, "sleep")
          /\ UNCHANGED error_msg
  /\ UNCHANGED <<issues, sync_log, clock, calls, lock, caller, raw_data, data, tx, idx,
                 attempt, sr_ret, result, before_sync, before_replace, log_before, rd>>
  /\ UNCHANGED auxVars

\* retry_on_error: one attempt that raises; the last one re-raises, the others sleep
FetchFail(p) ==
  /\ pc[p] = "fetch"
  /\ IF attempt[p] = MAX_RETRIES - 1
     THEN /\ error_msg' = Set(error_msg, p, ErrFetch)
          /\ pc' = Set(pc, p, "except")
          /\ UNCHANGED slept
     ELSE /\ slept' = Set(slept, p, Append(slept[p], BASE_DELAY * (2 ^ attempt[p])))
          /\ pc' = Set(pc, p, "sleep")
          /\ UNCHANGED error_msg
  /\ UNCHANGED <<issues, sync_log, clock, calls, lock, caller, raw_data, data, tx, idx,
                 attempt, sr_ret, result, before_sync, before_replace, log_before, rd>>
  /\ UNCHANGED auxVars

\* time.sleep(delay) returns: the next iteration of the loop
Wake(p) ==
  /\ pc[p] = "sleep"
  /\ attempt' = Set(attempt, p, attempt[p] + 1)
  /\ pc' = Set(pc, p, "fetch")
  /\ UNCHANGED <<issues, sync_log, clock, calls, lock, caller, raw_data, data, tx, idx, slept,
                 error_msg, sr_ret, result, before_sync, before_replace, log_before, rd>>
  /\ UNCHANGED auxVars

\* data = transform_data(raw_data), then the call of safe_replace_issues(data);
\* retry_on_error has returned and its locals are gone
Transform(p) ==
  /\ pc[p] = "transform"
  /\ data' = Set(data, p, transform_data(raw_data[p]))
  /\ before_replace' = Set(before_replace, p, issues)
  /\ attempt' = Set(attempt, p, 0)
  /\ slept' = Set(slept, p, <<>>)
  /\ pc' = Set(pc, p, "replace")
  /\ UNCHANGED <<issues, sync_log, clock, calls, lock, caller, raw_data, tx, idx,
                 error_msg, sr_ret, result, before_sync, log_before, rd>>
  /\ UNCHANGED auxVars

\* a success record that counts the rows fetched
LogSuccessCountsFetched(p) ==
  /\ pc[p] = "log"
  /\ lock = 0
  /\ \E now \in {clock, clock + 1} :
       /\ sync_log' = log_sync(sync_log, now, Len(raw_data[p]), "success",
                               "Full sync completed")
       /\ clock' = now
  /\ result' = Set(result, p, "True")
  /\ pc' = Set(pc, p, "returned")
  /\ UNCHANGED <<issues, calls, lock, caller, raw_data, data, tx, idx, attempt, slept,
                 error_msg, sr_ret, before_sync, before_replace, log_before, rd>>
  /\ UNCHANGED auxVars

\* log_sync(count, "success", ...); return True -- or log_sync raises into the handler
LogSuccess(p) ==
  /\ pc[p] = "log"
  /\ \E ok \in BOOLEAN :
       IF ok
       THEN /\ lock = 0
            /\ \E now \in {clock, clock + 1} :
                 /\ sync_log' = log_sync(sync_log, now, sr_ret[p].count, "success",
                                         "Full sync completed")
                 /\ clock' = now
            /\ result' = Set(result, p, "True")
            /\ pc' = Set(pc, p, "returned")
            /\ UNCHANGED error_msg
       ELSE /\ error_msg' = Set(error_msg, p, ErrStorage)
            /\ pc' = Set(pc, p, "except")
            /\ UNCHANGED <<sync_log, clock, result>>
  /\ UNCHANGED <<issues, calls, lock, caller, raw_data, data, tx, idx, attempt, slept,
                 sr_ret, before_sync, before_replace, log_before, rd>>
  /\ UNCHANGED auxVars

\* except Exception as e: log_sync(0, "failed", str(e)); return False -- or this
\* log_sync raises too, and the exception leaves sync(); the frames the exception
\* came through are gone
Except(p) ==
  /\ pc[p] = "except"
  /\ \E ok \in BOOLEAN :
       IF ok
       THEN /\ lock = 0
            /\ \E now \in {clock, clock + 1} :
                 /\ sync_log' = log_sync(sync_log, now, 0, "failed", error_msg[p])
                 /\ clock' = now
            /\ result' = Set(result, p, "False")
            /\ UNCHANGED error_msg
       ELSE /\ error_msg' = Set(error_msg, p, ErrStorage)
            /\ result' = Set(result, p, "raised")
            /\ UNCHANGED <<sync_log, clock>>
  /\ attempt' = Set(attempt, p, 0)
  /\ slept' = Set(slept, p, <<>>)
  /\ pc' = Set(pc, p, "returned")
  /\ UNCHANGED <<issues, calls, lock, caller, raw_data, data, tx, idx, sr_ret,
                 before_sync, before_replace, log_before, rd>>
  /\ UNCHANGED auxVars

\* the caller of sync() has its answer
SyncReturn(p) ==
  /\ pc[p] = "returned"
  /\ pc' = Set(pc, p, "idle")
  /\ ResetLocals(p)
  /\ UNCHANGED <<issues, sync_log, clock, calls, lock, rd>>
  /\ UNCHANGED auxVars

\* ------------------------------------------------- utils/common.py
\* a lookup of the text as it stands
normalize_progress_unstripped(value) ==
  IF IsNa(value) \/ value = None THEN "Unknown"
  ELSE LET val == Str(value)
       IN IF val \in DOMAIN PROGRESS_MAPPING THEN PROGRESS_MAPPING[val] ELSE "Unknown"

\* if pd.isna(value) or value is None: "Unknown"; val = str(value).strip();
\* PROGRESS_MAPPING.get(val, "Unknown")
normalize_progress(value) ==
  IF IsNa(value) \/ value = None THEN "Unknown"
  ELSE LET val == Strip(Str(value))
       IN IF val \in DOMAIN PROGRESS_MAPPING THEN PROGRESS_MAPPING[val] ELSE "Unknown"

\* DATE_FORMATS with day/month first
DATE_FORMATS_DayFirst == <<"%d/%m/%Y", "%Y-%m-%d", "%m/%d/%y", "%m/%d/%Y">>

\* DATE_FORMATS = ["%m/%d/%Y", "%Y-%m-%d", "%m/%d/%y", "%d/%m/%Y"]
DATE_FORMATS == <<"%m/%d/%Y", "%Y-%m-%d", "%m/%d/%y", "%d/%m/%Y">>

\* the days of a month of the Gregorian calendar
DaysIn(y, m) ==
  IF m \in {4, 6, 9, 11} THEN 30
  ELSE IF m = 2
       THEN (IF y % 4 = 0 /\ (y % 100 # 0 \/ y % 400 = 0) THEN 29 ELSE 28)
       ELSE 31

\* datetime(year, month, day) accepts the numbers
ValidDate(y, m, d) == m \in 1..12 /\ d \in 1..DaysIn(y, m)

\* %y: 69..99 are the years 1969..1999, 0..68 the years 2000..2068
Century(y2) == IF y2 >= 69 THEN 1900 + y2 ELSE 2000 + y2

\* what parse_date gives back: a datetime, None, or an exception
DateOf(y, m, d) ==
  [kind |-> "date", raised |-> FALSE, none |-> FALSE, year |-> y, month |-> m, day |-> d]
NoDate ==
  [kind |-> "date", raised |-> FALSE, none |-> TRUE, year |-> 0, month |-> 0, day |-> 0]
DateError ==
  [kind |-> "date", raised |-> TRUE, none |-> FALSE, year |-> 0, month |-> 0, day |-> 0]

\* the readings datetime.strptime(cleaned, fmt) accepts: the whole text must
\* match the directives, and the numbers must make a date; none means ValueError
Readings(cleaned, fmt) ==
  LET texts == {<<n, t>> : n \in Fields, t \in UNION {FieldTexts(k) : k \in Fields}}
      F == {nt \in texts : nt[2] \in FieldTexts(nt[1])}
  IN CASE fmt = "%m/%d/%Y" ->
            {DateOf(y, a[1], b[1]) : <<a, b, y>> \in
               {x \in F \X F \X Years4 :
                  /\ cleaned = x[1][2] \o "/" \o x[2][2] \o "/" \o YearText(x[3])
                  /\ ValidDate(x[3], x[1][1], x[2][1])}}
       [] fmt = "%Y-%m-%d" ->
            {DateOf(y, a[1], b[1]) : <<a, b, y>> \in
               {x \in F \X F \X Years4 :
                  /\ cleaned = YearText(x[3]) \o "-" \o x[1][2] \o "-" \o x[2][2]
                  /\ ValidDate(x[3], x[1][1], x[2][1])}}
       [] fmt = "%m/%d/%y" ->
            {DateOf(Century(y), a[1], b[1]) : <<a, b, y>> \in
               {x \in F \X F \X Years2 :
                  /\ cleaned = x[1][2] \o "/" \o x[2][2] \o "/" \o YearText(x[3])
                  /\ ValidDate(Century(x[3]), x[1][1], x[2][1])}}
       [] OTHER ->
            {DateOf(y, b[1], a[1]) : <<a, b, y>> \in
               {x \in F \X F \X Years4 :
                  /\ cleaned = x[1][2] \o "/" \o x[2][2] \o "/" \o YearText(x[3])
                  /\ ValidDate(x[3], x[2][1], x[1][1])}}

\* a loop that lets the ValueError of a format out
RECURSIVE TryFormatsUncaught(_, _)
TryFormatsUncaught(cleaned, fmts) ==
  IF fmts = <<>> THEN NoDate
  ELSE IF Readings(cleaned, Head(fmts)) # {}
       THEN CHOOSE r \in Readings(cleaned, Head(fmts)) : TRUE
       ELSE DateError

\* for fmt in DATE_FORMATS: try: return datetime.strptime(cleaned, fmt) / except
\* ValueError: continue; then return None
RECURSIVE TryFormats(_, _)
TryFormats(cleaned, fmts) ==
  IF fmts = <<>> THEN NoDate
  ELSE IF Readings(cleaned, Head(fmts)) # {}
       THEN CHOOSE r \in Readings(cleaned, Head(fmts)) : TRUE
       ELSE TryFormats(cleaned, Tail(fmts))

\* if pd.isna(date_str) or not date_str: return None; cleaned =
\* str(date_str).strip(); the first format that parses
parse_date(date_str) ==
  IF IsNa(date_str) \/ date_str = ""
  THEN NoDate
  ELSE TryFormats(Strip(Str(date_str)), DATE_FORMATS)

\* the date cells the dashboard may read: three numbers in any of the shapes,
\* some with blanks around, texts that are no date, a number, None and NaN
DateInputs ==
  DateTexts
  \cup {a \o t \o b : a \in Blanks, b \in Blanks,
                      t \in {"01/23/2026", "2026-01-23", "13/01/2026", "not a date", ""}}
  \cup {"7", None, NaN}

\* the dashboard is about to parse a date cell
InitDate ==
  /\ StoreEmpty
  /\ schema = CurrentSchema
  /\ calls = 0
  /\ ClientsIdle
  /\ \E v \in DateInputs : arg = [kind |-> "date", v |-> v]
  /\ ret = NoValue

\* parse_date(date_str)
ParseDate ==
  /\ arg.kind = "date"
  /\ ret = NoValue
  /\ ret' = parse_date(arg.v)
  /\ UNCHANGED <<issues, sync_log, clock, calls, lock, pc, pipeVars, rd, schema, cache,
                 auto_runs, arg>>

NextDate == ParseDate

SpecDate == InitDate /\ [][NextDate]_vars

\* the progress cells the dashboard may read: the texts of the table and others,
\* with and without blanks around them, a number, None and NaN
ProgressInputs ==
  {a \o t \o b : a \in Blanks, b \in Blanks,
                 t \in DOMAIN PROGRESS_MAPPING \cup {"", "BLOCK", "random_value"}}
  \cup {"7", None, NaN}

\* the dashboard is about to normalize a progress cell
InitProgress ==
  /\ StoreEmpty
  /\ schema = CurrentSchema
  /\ calls = 0
  /\ ClientsIdle
  /\ \E v \in ProgressInputs : arg = [kind |-> "progress", v |-> v]
  /\ ret = NoValue

\* normalize_progress(value)
NormalizeProgress ==
  /\ arg.kind = "progress"
  /\ ret = NoValue
  /\ ret' = [kind |-> "progress", v |-> normalize_progress(arg.v)]
  /\ UNCHANGED <<issues, sync_log, clock, calls, lock, pc, pipeVars, rd, schema, cache,
                 auto_runs, arg>>

NextProgress == NormalizeProgress

SpecProgress == InitProgress /\ [][NextProgress]_vars

\* ------------------------------------------------------------- the script
\* python scripts/sync_google_sheets.py: the process calls sync() once
ScriptStart(p) ==
  /\ pc[p] = "idle"
  /\ pc' = Set(pc, p, "init")
  /\ caller' = Set(caller, p, "sync")
  /\ UNCHANGED <<issues, sync_log, clock, calls, lock, raw_data, data, tx, idx, attempt,
                 slept, error_msg, sr_ret, result, before_sync, before_replace,
                 log_before, rd>>
  /\ UNCHANGED auxVars

\* sys.exit(0 if success else 1), or the traceback of an exception that left
\* sync(): the process is over, and of its locals only the way it ended shows
ScriptExit(p) ==
  /\ pc[p] = "returned"
  /\ pc' = Set(pc, p, "exited")
  /\ caller' = Set(caller, p, "none")
  /\ raw_data' = Set(raw_data, p, <<>>)
  /\ data' = Set(data, p, <<>>)
  /\ tx' = Set(tx, p, {})
  /\ idx' = Set(idx, p, 0)
  /\ attempt' = Set(attempt, p, 0)
  /\ slept' = Set(slept, p, <<>>)
  /\ error_msg' = Set(error_msg, p, "")
  /\ sr_ret' = Set(sr_ret, p, NoReturn)
  /\ before_sync' = Set(before_sync, p, {})
  /\ before_replace' = Set(before_replace, p, {})
  /\ log_before' = Set(log_before, p, <<>>)
  /\ UNCHANGED <<issues, sync_log, clock, calls, lock, rd, result>>
  /\ UNCHANGED auxVars

\* the rest of __main__ after sync(): show_status() reads the count and the last
\* ledger record (either read can raise a storage fault), then
\* sys.exit(0 if success else 1). An exception that leaves sync() or
\* show_status() ends the process with the interpreter's status 1.
ShowStatusAndExit(p) ==
  /\ pc[p] = "returned"
  /\ pc' = Set(pc, p, "exited")
  /\ IF result[p] = "raised"
     THEN ret' = [kind |-> "exit", status |-> 1, shown |-> FALSE]
     ELSE \E fault \in BOOLEAN :
            IF fault
            THEN ret' = [kind |-> "exit", status |-> 1, shown |-> FALSE]
            ELSE ret' = [kind |-> "exit",
                         status |-> IF result[p] = "True" THEN 0 ELSE 1,
                         shown |-> TRUE]
  /\ caller' = Set(caller, p, "none")
  /\ raw_data' = Set(raw_data, p, <<>>)
  /\ data' = Set(data, p, <<>>)
  /\ tx' = Set(tx, p, {})
  /\ idx' = Set(idx, p, 0)
  /\ attempt' = Set(attempt, p, 0)
  /\ slept' = Set(slept, p, <<>>)
  /\ error_msg' = Set(error_msg, p, "")
  /\ sr_ret' = Set(sr_ret, p, NoReturn)
  /\ before_sync' = Set(before_sync, p, {})
  /\ before_replace' = Set(before_replace, p, {})
  /\ log_before' = Set(log_before, p, <<>>)
  /\ UNCHANGED <<issues, sync_log, clock, calls, lock, rd, result, schema, cache,
                 auto_runs, arg>>

\* ---------------------------------------------------------- the dashboard
\* main(), one page load of a session: init_database(), then
\* if get_issues_count() == 0: _auto_sync_on_startup(); the rest of the page reads
PageLoad(p) ==
  /\ pc[p] = "idle"
  /\ calls < MaxCalls
  /\ calls' = calls + 1
  /\ schema' = init_database(schema)
  /\ issues' = InitIssuesTable(issues)
  /\ sync_log' = InitSyncLogTable(sync_log)
  /\ pc' = Set(pc, p, IF get_issues_count(issues) = 0 THEN "auto_check" ELSE "idle")
  /\ UNCHANGED <<clock, lock, pipeVars, rd, fnVars>>

\* _auto_sync_on_startup() under @st.cache_resource: a hit returns the stored
\* value, a miss takes the compute lock and runs the body (sync()), and a call
\* made while another session computes waits for the lock
AutoSyncCall(p) ==
  /\ pc[p] = "auto_check"
  /\ cache # "computing"
  /\ IF cache = "hit"
     THEN /\ pc' = Set(pc, p, "idle")
          /\ UNCHANGED <<cache, auto_runs, caller, before_sync, log_before>>
     ELSE /\ cache' = "computing"
          /\ auto_runs' = auto_runs + 1
          /\ pc' = Set(pc, p, "init")
          /\ caller' = Set(caller, p, "sync")
          /\ before_sync' = Set(before_sync, p, issues)
          /\ log_before' = Set(log_before, p, sync_log)
  /\ UNCHANGED <<issues, sync_log, clock, calls, lock, raw_data, data, tx, idx, attempt,
                 slept, error_msg, sr_ret, result, before_replace, rd, schema, arg, ret>>

\* a function whose return value is not kept
AutoSyncReturnForgets(p) ==
  /\ pc[p] = "returned"
  /\ cache = "computing"
  /\ cache' = "miss"
  /\ pc' = Set(pc, p, "idle")
  /\ ResetLocals(p)
  /\ UNCHANGED <<issues, sync_log, clock, calls, lock, rd, schema, auto_runs, arg, ret>>

\* the body returns, whatever sync() did (except Exception: a warning): the
\* return value is stored and the compute lock released
AutoSyncReturn(p) ==
  /\ pc[p] = "returned"
  /\ cache = "computing"
  /\ cache' = "hit"
  /\ pc' = Set(pc, p, "idle")
  /\ ResetLocals(p)
  /\ UNCHANGED <<issues, sync_log, clock, calls, lock, rd, schema, auto_runs, arg, ret>>

\* ------------------------------------------------------------- the reader
\* a query of the dashboard on its own connection: it sees the committed table
ReaderQuery ==
  /\ \E kind \in {"all", "count"} :
       rd' = IF kind = "all"
             THEN [kind |-> "all", rows |-> get_all_issues(issues), n |-> 0]
             ELSE [kind |-> "count", rows |-> <<>>, n |-> get_issues_count(issues)]
  /\ UNCHANGED <<issues, sync_log, clock, calls, lock, pc, pipeVars>>
  /\ UNCHANGED auxVars

\* the frame of a read: one SELECT (or several) on a connection that is closed
\* without a write
ReadFrame ==
  UNCHANGED <<issues, sync_log, clock, calls, lock, pc, pipeVars, schema, cache,
              auto_runs, ret>>

\* a read that removes the ledger record it returns
GetLastSyncPops ==
  /\ arg' = [kind |-> "get_last_sync", v |-> ""]
  /\ IF sync_log = <<>>
     THEN rd' = [kind |-> "last_sync", rows |-> <<>>, n |-> 0]
          /\ sync_log' = sync_log
     ELSE \E r \in get_last_sync(sync_log) :
            /\ rd' = [kind |-> "last_sync", rows |-> <<r>>, n |-> 0]
            /\ sync_log' = SelectSeq(sync_log, LAMBDA q : q # r)
  /\ UNCHANGED <<issues, clock, calls, lock, pc, pipeVars, schema, cache,
                 auto_runs, ret>>

\* get_last_sync(): None (no row) or the row fetchone() returns
GetLastSync ==
  /\ arg' = [kind |-> "get_last_sync", v |-> ""]
  /\ IF sync_log = <<>>
     THEN rd' = [kind |-> "last_sync", rows |-> <<>>, n |-> 0]
     ELSE \E r \in get_last_sync(sync_log) :
            rd' = [kind |-> "last_sync", rows |-> <<r>>, n |-> 0]
  /\ ReadFrame

\* search_issues(keyword)
SearchIssues ==
  /\ \E keyword \in Keywords :
       /\ arg' = [kind |-> "search_issues", v |-> keyword]
       /\ rd' = [kind |-> "search", rows |-> search_issues(issues, keyword), n |-> 0]
  /\ ReadFrame

\* filter_issues(...)
FilterIssues ==
  /\ \E f \in FilterArgs :
       /\ arg' = [kind |-> "filter_issues", v |-> f]
       /\ rd' = [kind |-> "filter", rows |-> filter_issues(issues, f), n |-> 0]
  /\ ReadFrame

\* get_unique_values(column)
GetUniqueValues ==
  /\ \E column \in {"progress", "owner"} :
       /\ arg' = [kind |-> "get_unique_values", v |-> column]
       /\ rd' = [kind |-> "unique", rows |-> get_unique_values(issues, column), n |-> 0]
  /\ ReadFrame

\* get_statistics()
GetStatistics ==
  /\ arg' = [kind |-> "get_statistics", v |-> ""]
  /\ LET stats == get_statistics(issues)
     IN rd' = [kind |-> "stats",
               rows |-> <<stats.by_progress, stats.by_category,
                          stats.by_problem_category, stats.by_owner>>,
               n |-> stats.total]
  /\ ReadFrame

\* get_statistics() statement by statement, for a store that is written
\* meanwhile: the connection runs its five SELECTs outside a transaction, so
\* each one reads the table as committed at its own moment.
\* stats["total"] = conn.execute("SELECT COUNT(*) FROM issues").fetchone()[0]
GetStatisticsTotal ==
  /\ rd.kind \notin {"stats_total", "stats_1", "stats_2", "stats_3"}
  /\ arg' = [kind |-> "get_statistics", v |-> ""]
  /\ rd' = [kind |-> "stats_total", rows |-> <<>>, n |-> get_statistics(issues).total]
  /\ ReadFrame

\* the next GROUP BY statement: by_progress, by_category, by_problem_category,
\* by_owner; after the last one the dict is returned
GetStatisticsGroup ==
  /\ rd.kind \in {"stats_total", "stats_1", "stats_2", "stats_3"}
  /\ LET stats == get_statistics(issues)
         done == Len(rd.rows)
         group == CASE done = 0 -> stats.by_progress
                    [] done = 1 -> stats.by_category
                    [] done = 2 -> stats.by_problem_category
                    [] OTHER -> stats.by_owner
         kind == CASE done = 0 -> "stats_1"
                   [] done = 1 -> "stats_2"
                   [] done = 2 -> "stats_3"
                   [] OTHER -> "stats"
     IN rd' = [kind |-> kind, rows |-> Append(rd.rows, group), n |-> rd.n]
  /\ UNCHANGED arg
  /\ ReadFrame

\* ------------------------------------------------------- specification
Step(p) ==
  \/ InitDatabase(p)
  \/ ClearIssues(p)
  \/ InsertIssues(p)
  \/ LogSyncCall(p)
  \/ SafeReplaceCall(p)
  \/ SrEnter(p)
  \/ SrDelete(p)
  \/ SrInsert(p)
  \/ SrCommit(p)
  \/ SrFail(p)
  \/ SrDone(p)
  \/ SyncStart(p)
  \/ SyncInit(p)
  \/ FetchOk(p)
  \/ FetchFail(p)
  \/ Wake(p)
  \/ Transform(p)
  \/ LogSuccess(p)
  \/ Except(p)
  \/ SyncReturn(p)

\* one client of the storage layer and of the pipeline
Next == Step(1)

Spec == Init /\ [][Next]_vars

\* safe_replace_issues and the other writes of the issues table, with a reader
\* querying the table at any moment
NextRead ==
  \/ ClearIssues(1)
  \/ InsertIssues(1)
  \/ SafeReplaceCall(1)
  \/ SrEnter(1)
  \/ SrDelete(1)
  \/ SrInsert(1)
  \/ SrCommit(1)
  \/ SrFail(1)
  \/ SrDone(1)
  \/ ReaderQuery

SpecRead == Init /\ [][NextRead]_vars

\* transform_data on records of any shape: sync() holds what the fetch returned
InitTransform ==
  /\ StoreEmpty
  /\ schema = CurrentSchema
  /\ calls = 1
  /\ pc = [p \in Procs |-> IF p = 1 THEN "transform" ELSE "idle"]
  /\ caller = [p \in Procs |-> IF p = 1 THEN "sync" ELSE "none"]
  /\ \E raw \in LooseRawBatches : raw_data = [p \in Procs |-> IF p = 1 THEN raw ELSE <<>>]
  /\ data = [p \in Procs |-> <<>>]
  /\ tx = [p \in Procs |-> {}]
  /\ idx = [p \in Procs |-> 0]
  /\ attempt = [p \in Procs |-> 0]
  /\ slept = [p \in Procs |-> <<>>]
  /\ error_msg = [p \in Procs |-> ""]
  /\ sr_ret = [p \in Procs |-> NoReturn]
  /\ result = [p \in Procs |-> "none"]
  /\ before_sync = [p \in Procs |-> {}]
  /\ before_replace = [p \in Procs |-> {}]
  /\ log_before = [p \in Procs |-> <<>>]
  /\ rd = NoRecord
  /\ cache = "miss"
  /\ auto_runs = 0
  /\ NoHelperCall

NextTransform == Transform(1)

SpecTransform == InitTransform /\ [][NextTransform]_vars

\* one run of scripts/sync_google_sheets.py
ScriptStep(p) ==
  \/ ScriptStart(p)
  \/ SyncInit(p)
  \/ FetchOk(p)
  \/ FetchFail(p)
  \/ Wake(p)
  \/ Transform(p)
  \/ SrEnter(p)
  \/ SrDelete(p)
  \/ SrInsert(p)
  \/ SrCommit(p)
  \/ SrFail(p)
  \/ LogSuccess(p)
  \/ Except(p)
  \/ ScriptExit(p)

\* two runs of the script on one database file, overlapping at will
NextTwo == ScriptStep(1) \/ ScriptStep(2)

SpecTwo == Init /\ [][NextTwo]_vars

\* one run of the script, from the command line to its exit status
NextScript ==
  \/ ScriptStart(1)
  \/ SyncInit(1)
  \/ FetchOk(1)
  \/ FetchFail(1)
  \/ Wake(1)
  \/ Transform(1)
  \/ SrEnter(1)
  \/ SrDelete(1)
  \/ SrInsert(1)
  \/ SrCommit(1)
  \/ SrFail(1)
  \/ LogSuccess(1)
  \/ Except(1)
  \/ ShowStatusAndExit(1)

SpecScript == Init /\ [][NextScript]_vars

\* the same run when every call returns or raises: the interpreter goes on to
\* the next statement of the script as long as there is one
SpecScriptFair == SpecScript /\ WF_vars(NextScript)

\* a session of the dashboard process
DashStep(p) ==
  \/ PageLoad(p)
  \/ AutoSyncCall(p)
  \/ SyncInit(p)
  \/ FetchOk(p)
  \/ FetchFail(p)
  \/ Wake(p)
  \/ Transform(p)
  \/ SrEnter(p)
  \/ SrDelete(p)
  \/ SrInsert(p)
  \/ SrCommit(p)
  \/ SrFail(p)
  \/ LogSuccess(p)
  \/ Except(p)
  \/ AutoSyncReturn(p)

\* two sessions of one dashboard process loading the page
NextDash == DashStep(1) \/ DashStep(2)

SpecDash == Init /\ [][NextDash]_vars

\* safe_replace_issues on rows of any shape
NextStore ==
  \/ SafeReplaceLooseCall(1)
  \/ SrEnter(1)
  \/ SrDelete(1)
  \/ SrInsert(1)
  \/ SrCommit(1)
  \/ SrFail(1)
  \/ SrDone(1)

SpecStore == Init /\ [][NextStore]_vars

\* init_database on a store of any age: no file yet, a file from before the
\* problem_category column or before the ledger, or a file of this version
Schemas ==
  {{}, {"issues"}, {"issues", "sync_log"}, {"issues", "problem_category"}, CurrentSchema}

\* the tables a store can hold: what earlier syncs inserted
Tables == {ExecuteMany({}, RowsOf(items)) : items \in ItemBatches}

\* the ledgers a store can hold: what earlier log_sync calls appended
RECURSIVE LedgerOf(_)
LedgerOf(n) ==
  IF n = 0 THEN <<>>
  ELSE log_sync(LedgerOf(n - 1), 0, 3, "success", "Test sync")

Ledgers == {LedgerOf(n) : n \in 0..MaxCalls}

InitStores ==
  /\ schema \in Schemas
  /\ issues \in IF "issues" \in schema THEN Tables ELSE {{}}
  /\ sync_log \in IF "sync_log" \in schema THEN Ledgers ELSE {<<>>}
  /\ clock = 0
  /\ lock = 0
  /\ calls = 0
  /\ ClientsIdle
  /\ NoHelperCall

NextInit == InitDatabase(1)

SpecInit == InitStores /\ [][NextInit]_vars

\* log_sync called on its own, any number of times
NextLedger == LogSync(1)

SpecLedger == Init /\ [][NextLedger]_vars

\* the rows the dashboard queries: id, progress, owner and date columns
QueryRow ==
  [id : Ids, progress : {"Done", "Blocked"}, owner : Owners, date : {"01/23/2026"}]

\* the tables of such rows: id is the primary key
QueryTables ==
  {T \in SUBSET QueryRow :
     /\ Cardinality(T) <= MaxRows
     /\ \A r \in T, q \in T : r.id = q.id => r = q}

\* the dashboard and the tests read a store that syncs have filled, while
\* log_sync appends to the ledger
InitQuery ==
  /\ issues \in QueryTables
  /\ sync_log = <<>>
  /\ clock = 0
  /\ lock = 0
  /\ schema = CurrentSchema
  /\ calls = 0
  /\ ClientsIdle
  /\ NoHelperCall

NextQuery ==
  \/ LogSyncCall(1)
  \/ ReaderQuery
  \/ GetLastSync
  \/ SearchIssues
  \/ FilterIssues
  \/ GetUniqueValues
  \/ GetStatistics

SpecQuery == InitQuery /\ [][NextQuery]_vars

\* rows with the columns get_statistics groups by; a cell a sync wrote is a text
\* (possibly empty) or NULL
StatsRow ==
  [id : Ids, progress : {"Done", None}, category : {"ROCm Issue", ""},
   owner : {"Alice", ""}, problem_category : {"Setup/Drivers", "", None}]

\* the tables of such rows: id is the primary key, so a table is a choice of
\* ids and of one row for each
StatsTables ==
  UNION {{{f[i] : i \in S} : f \in {g \in [S -> StatsRow] : \A i \in S : g[i].id = i}} :
         S \in SUBSET Ids}

\* a store at rest that the dashboard computes its statistics from
InitStats ==
  /\ issues \in StatsTables
  /\ sync_log = <<>>
  /\ clock = 0
  /\ lock = 0
  /\ schema = CurrentSchema
  /\ calls = 0
  /\ ClientsIdle
  /\ NoHelperCall

NextStats ==
  \/ GetStatistics
  \/ ReaderQuery

SpecStats == InitStats /\ [][NextStats]_vars

\* rows with two of the columns search_issues looks in, and one it does not
SearchRow == [id : Ids, issue : IssueTexts \cup {None}, owner : Owners, progress : {"Done"}]

SearchTables ==
  UNION {{{f[i] : i \in S} : f \in {g \in [S -> SearchRow] : \A i \in S : g[i].id = i}} :
         S \in SUBSET Ids}

\* a store at rest that the dashboard searches
InitSearch ==
  /\ issues \in SearchTables
  /\ sync_log = <<>>
  /\ clock = 0
  /\ lock = 0
  /\ schema = CurrentSchema
  /\ calls = 0
  /\ ClientsIdle
  /\ NoHelperCall

NextSearch == SearchIssues

SpecSearch == InitSearch /\ [][NextSearch]_vars

\* rows with three of the columns filter_issues compares; the sheet writes dates
\* as month/day/year
FilterRow ==
  [id : Ids, progress : {"Done", "Pending"}, owner : Owners,
   date : {"01/23/2026", "12/01/2025"}]

FilterTables ==
  UNION {{{f[i] : i \in S} : f \in {g \in [S -> FilterRow] : \A i \in S : g[i].id = i}} :
         S \in SUBSET Ids}

\* a store at rest that a caller filters
InitFilter ==
  /\ issues \in FilterTables
  /\ sync_log = <<>>
  /\ clock = 0
  /\ lock = 0
  /\ schema = CurrentSchema
  /\ calls = 0
  /\ ClientsIdle
  /\ NoHelperCall

NextFilter == FilterIssues

SpecFilter == InitFilter /\ [][NextFilter]_vars

\* the dashboard computes its statistics while a sync replaces the table
NextRace ==
  \/ SafeReplaceCall(1)
  \/ SrEnter(1)
  \/ SrDelete(1)
  \/ SrInsert(1)
  \/ SrCommit(1)
  \/ SrFail(1)
  \/ SrDone(1)
  \/ GetStatisticsTotal
  \/ GetStatisticsGroup

SpecRace == Init /\ [][NextRace]_vars

\* ================================================================ claims
\* the dataset a batch describes: for each id, the last row of the batch with it
LastPerId(items) ==
  {RowOf(items[i]) : i \in {k \in 1..Len(items) :
                              \A j \in (k + 1)..Len(items) : items[j].id # items[k].id}}

IdsOf(items) == {items[i].id : i \in 1..Len(items)}

IsPrefix(s, t) == Len(s) <= Len(t) /\ \A i \in 1..Len(s) : t[i] = s[i]

Last(s) == s[Len(s)]

\* the reader's record is the answer of its query on the table T
Reflects(r, T) ==
  \/ r.kind = "all" /\ r.rows = get_all_issues(T)
  \/ r.kind = "count" /\ r.n = get_issues_count(T)

\* C1: when safe_replace_issues (non-empty rows) fails at the DELETE, during the
\* bulk insert or at the commit, the issues table is the table of before the call
\* and the exception reaches the caller (sync's handler, or the direct caller).
C1_RollbackOnFailure ==
  \A p \in Procs :
    sr_ret[p].kind = "raised" =>
      /\ issues = before_replace[p]
      /\ error_msg[p] # ""
      /\ pc[p] \in {"sr_done", "except", "returned"}

\* a replace of a non-empty table has failed after one of its two rows was inserted
C1_Witness ==
  /\ sr_ret[1].kind = "raised"
  /\ pc[1] = "sr_done"
  /\ before_replace[1] # {}
  /\ Len(data[1]) = 2
  /\ idx[1] = 1
  /\ issues = before_replace[1]

\* C2: a reader's query (get_all_issues or get_issues_count) that runs while
\* safe_replace_issues(new) is in progress on a store holding old answers for
\* exactly old or exactly new, never for the emptied or half-filled table.
C2_ReaderSeesOldOrNew ==
  [][(ReaderQuery /\ pc[1] \in {"replace", "sr_delete", "sr_insert", "sr_done"}
        /\ data[1] # <<>>)
     => \/ Reflects(rd', before_replace[1])
        \/ Reflects(rd', LastPerId(data[1]))]_vars

\* the reader holds the old dataset while the transaction holds a half-filled table
C2_Witness ==
  /\ pc[1] = "sr_insert"
  /\ Len(data[1]) = 2
  /\ idx[1] = 1
  /\ before_replace[1] # {}
  /\ tx[1] # before_replace[1]
  /\ tx[1] # LastPerId(data[1])
  /\ rd.kind = "all"
  /\ rd.rows = get_all_issues(before_replace[1])

\* C3: after every sync() that returns False, whichever stage failed, the issues
\* table is the table of before the call.
C3_FailedSyncLeavesTable ==
  \A p \in Procs :
    (pc[p] = "returned" /\ result[p] = "False") => issues = before_sync[p]

\* C4: sync() never raises: it ends with True or False.
C4_SyncNeverRaises ==
  \A p \in Procs : pc[p] = "returned" => result[p] \in {"True", "False"}

\* C5: whenever a stage of sync() raises, sync() appends the record
\* (0, 'failed', error text) to the ledger and returns False.
C5_FailureIsLogged ==
  \A p \in Procs :
    (pc[p] = "returned" /\ result[p] # "True") =>
      /\ result[p] = "False"
      /\ Len(sync_log) = Len(log_before[p]) + 1
      /\ Last(sync_log).status = "failed"
      /\ Last(sync_log).rows_synced = 0
      /\ Last(sync_log).message = error_msg[p]

\* C6: every sync(), successful or failed, appends exactly one sync_log record.
C6_OneRecordPerSync ==
  \A p \in Procs :
    pc[p] = "returned" =>
      /\ IsPrefix(log_before[p], sync_log)
      /\ Len(sync_log) = Len(log_before[p]) + 1

\* C7: the ledger is append-only (every step keeps the records it held, unchanged
\* and at their place) and sync_time is non-decreasing in insertion order.
C7_LedgerAppendOnly ==
  /\ [][IsPrefix(sync_log, sync_log')]_vars
  /\ [](\A i \in 1..Len(sync_log) : \A j \in i..Len(sync_log) :
          sync_log[i].sync_time <= sync_log[j].sync_time)

\* the ledger holds two records of different times, a failed and a successful sync
C7_Witness ==
  /\ Len(sync_log) = 2
  /\ sync_log[1].status = "failed"
  /\ sync_log[2].status = "success"
  /\ sync_log[1].sync_time < sync_log[2].sync_time
  /\ pc[1] = "idle"

\* C8: safe_replace_issues([]) returns 0 and leaves the issues table as it was.
C8_EmptyReplaceIsNoOp ==
  \A p \in Procs :
    (data[p] = <<>> /\ pc[p] \in {"sr_done", "log"}) =>
      /\ sr_ret[p].kind = "returned"
      /\ sr_ret[p].count = 0
      /\ issues = before_replace[p]

\* safe_replace_issues([]) has returned on a table that holds rows
C8_Witness ==
  /\ pc[1] = "sr_done"
  /\ data[1] = <<>>
  /\ sr_ret[1] = [kind |-> "returned", count |-> 0]
  /\ issues # {}

\* C9 as stated: after every sync() that returns True the rows of the store are
\* exactly the rows transform_data produced in that run.
C9_StoreIsTransformOutput ==
  \A p \in Procs :
    (pc[p] = "returned" /\ result[p] = "True") => issues = Range(RowsOf(data[p]))

\* C9 amended: after a sync() that returns True with at least one transformed row
\* the store holds, for each id of the batch, the last transformed row with that
\* id and nothing else; with no transformed row the store is left as it was.
C9_StoreIsSuperseded ==
  \A p \in Procs :
    (pc[p] = "returned" /\ result[p] = "True") =>
      IF data[p] = <<>> THEN issues = before_sync[p]
      ELSE issues = LastPerId(data[p])

\* a successful sync has replaced a row of an earlier dataset
C9_Witness ==
  /\ pc[1] = "returned"
  /\ result[1] = "True"
  /\ data[1] # <<>>
  /\ \E r \in before_sync[1] : r \notin issues /\ r.id \notin IdsOf(data[1])

\* C10 as stated: after a successful safe_replace_issues(rows), get_issues_count()
\* is len(rows), which is the value returned.
C10_CountIsLen ==
  \A p \in Procs :
    (pc[p] \in {"sr_done", "log"} /\ sr_ret[p].kind = "returned") =>
      /\ get_issues_count(issues) = Len(data[p])
      /\ sr_ret[p].count = Len(data[p])

\* C10 amended: a successful safe_replace_issues(rows) returns len(rows); for
\* non-empty rows get_issues_count() is then the number of distinct ids of rows
\* (len(rows) when the ids are pairwise distinct) whatever the table held before,
\* and for empty rows it is the count of before the call.
C10_CountIsDistinctIds ==
  \A p \in Procs :
    (pc[p] \in {"sr_done", "log"} /\ sr_ret[p].kind = "returned") =>
      /\ sr_ret[p].count = Len(data[p])
      /\ data[p] # <<>> => get_issues_count(issues) = Cardinality(IdsOf(data[p]))
      /\ data[p] = <<>> => get_issues_count(issues) = get_issues_count(before_replace[p])

\* a replace by two rows of distinct ids has returned 2 on a table that held one row
C10_Witness ==
  /\ pc[1] = "sr_done"
  /\ sr_ret[1] = [kind |-> "returned", count |-> 2]
  /\ get_issues_count(before_replace[1]) = 1
  /\ get_issues_count(issues) = 2

\* the rows of a batch that are the last of the batch with their id
LastOfId(items) ==
  {i \in 1..Len(items) :
     \A j \in (i + 1)..Len(items) :
       IntegerAffinity(Get(items[j], "id", "")) # IntegerAffinity(Get(items[i], "id", ""))}

\* C11 as stated: after a successful safe_replace_issues(rows), get_all_issues()
\* holds for every input row a row with its id whose fields are the input's
\* values, "" for a field the input lacks.
C11_RoundTripExact ==
  \A p \in Procs :
    (pc[p] = "sr_done" /\ sr_ret[p].kind = "returned" /\ data[p] # <<>>) =>
      \A i \in 1..Len(data[p]) :
        \E r \in Range(get_all_issues(issues)) :
          \A col \in Range(columns) : r[col] = Get(data[p][i], col, "")

\* C11 amended: after a successful safe_replace_issues(rows), get_all_issues()
\* holds for every input row that is the last of the batch with its id a row of
\* that id (as an integer) whose other fields are the input's values as a TEXT
\* column stores them: a text unchanged, a number as its decimal text, "" for a
\* field the input lacks.
C11_RoundTripStored ==
  \A p \in Procs :
    (pc[p] = "sr_done" /\ sr_ret[p].kind = "returned" /\ data[p] # <<>>) =>
      \A i \in LastOfId(data[p]) :
        \E r \in Range(get_all_issues(issues)) :
          /\ r.id = IntegerAffinity(Get(data[p][i], "id", ""))
          /\ \A col \in Range(columns) \ {"id"} :
               r[col] = TextAffinity(Get(data[p][i], col, ""))

\* a replace has stored a row given without its progress field and a row whose
\* progress is a number
C11_Witness ==
  /\ pc[1] = "sr_done"
  /\ sr_ret[1].kind = "returned"
  /\ Len(data[1]) = 2
  /\ [id |-> "2"] \in Range(data[1])
  /\ [id |-> "2", progress |-> ""] \in issues
  /\ [id |-> "1", progress |-> "'7'"] \in issues

\* C12: when the batch holds several rows of one id, safe_replace_issues succeeds
\* and the row stored for the id has the fields of the last of them.
C12_LastDuplicateWins ==
  \A p \in Procs :
    (pc[p] = "sr_done" /\ sr_ret[p].kind = "returned") =>
      \A i \in 1..Len(data[p]) : \A j \in (i + 1)..Len(data[p]) :
        (data[p][i].id = data[p][j].id /\ j \in LastOfId(data[p])) =>
          /\ RowOf(data[p][j]) \in issues
          /\ \A r \in issues : r.id = data[p][j].id => r = RowOf(data[p][j])

\* a replace by two rows of one id and different progress has returned
C12_Witness ==
  /\ pc[1] = "sr_done"
  /\ sr_ret[1] = [kind |-> "returned", count |-> 2]
  /\ Len(data[1]) = 2
  /\ data[1][1].id = data[1][2].id
  /\ data[1][1].progress # data[1][2].progress
  /\ issues = {RowOf(data[1][2])}

\* the records of a batch whose ID cell is there and not empty
HasId(raw) == {i \in 1..Len(raw) : Get(raw[i], "ID", "") \notin {"", None}}

\* C13: when fetch and storage succeed and the sheet holds N records with an id
\* and any number of records whose ID is empty or absent, sync() returns True and
\* appends one 'success' record whose rows_synced is N; a sync() that ends
\* otherwise has met an error.
C13_SkippedRowsDoNotFail ==
  \A p \in Procs :
    (pc[p] = "returned" /\ caller[p] = "sync") =>
      /\ result[p] = "True" =>
           /\ Len(sync_log) = Len(log_before[p]) + 1
           /\ Last(sync_log).status = "success"
           /\ Last(sync_log).rows_synced = Cardinality(HasId(raw_data[p]))
      /\ result[p] # "True" => error_msg[p] # ""

\* a sync() of a record with an id and a record without one has returned True
C13_Witness ==
  /\ pc[1] = "returned"
  /\ result[1] = "True"
  /\ Len(raw_data[1]) = 2
  /\ Cardinality(HasId(raw_data[1])) = 1
  /\ Last(sync_log).rows_synced = 1

\* C14: every row transform_data returns, and so every row sync() passes to
\* safe_replace_issues, has a non-empty id.
C14_NoEmptyIdReachesStorage ==
  \A p \in Procs :
    (pc[p] = "replace" /\ caller[p] = "sync") =>
      \A i \in 1..Len(data[p]) : data[p][i].id \notin {"", None}

\* the place in the output of the i-th record of the input, when it is retained
PlaceOf(raw, i) == Cardinality({j \in HasId(raw) : j <= i})

\* C15: transform_data returns one row per input record with a non-empty ID, in
\* the order of the input, and the rows returned plus the records skipped are
\* the records of the input.
C15_OrderAndCount ==
  \A p \in Procs :
    (pc[p] = "replace" /\ caller[p] = "sync") =>
      /\ Len(data[p]) = Cardinality(HasId(raw_data[p]))
      /\ Len(data[p]) + skipped(raw_data[p]) = Len(raw_data[p])
      /\ \A i \in HasId(raw_data[p]) :
           LET id == raw_data[p][i].ID
           IN data[p][PlaceOf(raw_data[p], i)].id = (IF id = " " THEN "" ELSE id)

\* two records with different ids around a skipped one have been transformed
C15_Witness ==
  /\ pc[1] = "replace"
  /\ Len(raw_data[1]) = 3
  /\ HasId(raw_data[1]) = {1, 3}
  /\ skipped(raw_data[1]) = 1
  /\ data[1] = <<[id |-> "2", progress |-> "BLOCK"], [id |-> "1", progress |-> "done"]>>

\* the cells with blanks around their text
Padded == {" done ", " BLOCK ", " "}

\* C16: every row transform_data returns has the canonical keys of COLUMN_MAPPING
\* and no other: each holds the cell of the mapped column, without the blanks
\* around it when the cell is a text, and "" when the record lacks the column; a
\* column outside the mapping never appears.
C16_CanonicalKeys ==
  \A p \in Procs :
    (pc[p] = "replace" /\ caller[p] = "sync") =>
      \A i \in HasId(raw_data[p]) :
        LET row == raw_data[p][i]
            item == data[p][PlaceOf(raw_data[p], i)]
        IN /\ DOMAIN item = {"id", "progress"}
           /\ item.progress \notin Padded
           /\ "Progress" \notin DOMAIN row => item.progress = ""
           /\ ("Progress" \in DOMAIN row /\ row.Progress \notin Padded) =>
                item.progress = row.Progress
           /\ ("Progress" \in DOMAIN row /\ row.Progress = " done ") =>
                item.progress = "done"

\* a record with a number, an unmapped column and a record without the Progress
\* column have been transformed
C16_Witness ==
  /\ pc[1] = "replace"
  /\ raw_data[1] = <<[ID |-> "1", Progress |-> "7", Notes |-> "x"], [ID |-> "2"]>>
  /\ data[1] = <<[id |-> "1", progress |-> "7"], [id |-> "2", progress |-> ""]>>

C18_DelaysTwoFourEight ==
  \A p \in Procs :
    (pc[p] = "except" /\ error_msg[p] = ErrFetch) => slept[p] = <<2, 4, 8>>

\* the place of a step of sync() in the order of its stages and of the steps
\* inside safe_replace_issues
Stage(at) ==
  CASE at = "idle" -> 0
    [] at = "init" -> 1
    [] at \in {"fetch", "sleep"} -> 2
    [] at = "transform" -> 3
    [] at = "replace" -> 4
    [] at = "sr_delete" -> 5
    [] at = "sr_insert" -> 6
    [] at = "log" -> 7
    [] at = "except" -> 8
    [] OTHER -> 9

\* C19: in one sync() only the fetch is retried: it is attempted at most
\* MAX_RETRIES times, every other stage is entered at most once, and after a
\* failure no stage is run again.
C19_OnlyFetchIsRetried ==
  /\ [](\A p \in Procs : attempt[p] < MAX_RETRIES)
  /\ [][\A p \in Procs :
          (pc[p] = "sleep" /\ pc'[p] = "fetch") => attempt'[p] = attempt[p] + 1]_vars
  /\ [][\A p \in Procs :
          (caller[p] = "sync" /\ pc[p] # "returned" /\ pc'[p] # pc[p]) =>
            \/ Stage(pc'[p]) > Stage(pc[p])
            \/ {pc[p], pc'[p]} = {"fetch", "sleep"}]_vars
  /\ [][\A p \in Procs :
          (caller[p] = "sync" /\ pc[p] = "except") => pc'[p] = "returned"]_vars

\* safe_replace_issues has raised inside sync(), after a fetch
C19_Witness ==
  /\ pc[1] = "except"
  /\ caller[1] = "sync"
  /\ sr_ret[1].kind = "raised"
  /\ raw_data[1] # <<>>

\* C20: safe_replace_issues is invoked only after the fetch has returned and
\* transform_data has completed; the 'success' record is written only after
\* safe_replace_issues has returned; when the fetch fails after its retries, the
\* issues table is never written in that run.
C20_StagesInOrder ==
  /\ [](\A p \in Procs :
          (caller[p] = "sync" /\ pc[p] \in {"replace", "sr_delete", "sr_insert", "log"}) =>
            /\ data[p] = transform_data(raw_data[p])
            /\ error_msg[p] = "")
  /\ [][\A p \in Procs :
          (caller[p] = "sync" /\ pc'[p] = "replace") => pc[p] = "transform"]_vars
  /\ [][\A p \in Procs :
          (caller[p] = "sync" /\ pc'[p] = "transform") => pc[p] = "fetch"]_vars
  /\ [][\A p \in Procs :
          (caller[p] = "sync" /\ Len(sync_log') > Len(sync_log)
             /\ Last(sync_log').status = "success") =>
            (pc[p] = "log" /\ sr_ret[p].kind = "returned")]_vars
  /\ [][\A p \in Procs :
          error_msg[p] = ErrFetch => (issues' = issues /\ tx'[p] = {})]_vars
  /\ [](\A p \in Procs :
          (pc[p] = "returned" /\ result[p] = "False"
             /\ Last(sync_log).message = ErrFetch) =>
            (issues = before_sync[p] /\ sr_ret[p] = NoReturn))

\* a sync() whose fetch failed three times has returned over a table with rows
C20_Witness ==
  /\ pc[1] = "returned"
  /\ result[1] = "False"
  /\ Last(sync_log).message = ErrFetch
  /\ issues # {}
  /\ issues = before_sync[1]

\* the steps of sync()
InSync == {"init", "fetch", "sleep", "transform", "replace", "sr_delete", "sr_insert",
           "log", "except", "returned"}

\* C21: in one dashboard process, over any number of page loads, the body of
\* _auto_sync_on_startup runs at most once: it starts only on a load that read
\* get_issues_count() = 0 and only while nothing is cached, and once it has
\* started no later load, also over a still empty table, starts it again.
C21_AutoSyncAtMostOnce ==
  /\ [][\A p \in Procs :
          (pc'[p] = "init" /\ pc[p] # "init") =>
            (pc[p] = "auto_check" /\ cache = "miss" /\ cache' = "computing")]_vars
  /\ [](auto_runs <= 1)
  /\ [][auto_runs' # auto_runs => cache = "miss"]_vars
  /\ [][\A p \in Procs :
          (pc'[p] = "auto_check" /\ pc[p] # "auto_check") =>
            get_issues_count(issues) = 0]_vars
  /\ [](Cardinality({p \in Procs : pc[p] \in InSync}) <= 1)
  /\ []((\E p \in Procs : pc[p] \in InSync) <=> cache = "computing")

\* a later load has read an empty table after the one run of the body
C21_Witness ==
  /\ cache = "hit"
  /\ auto_runs = 1
  /\ issues = {}
  /\ Len(sync_log) = 1
  /\ \E p \in Procs : pc[p] = "auto_check"

\* C22: a sync() in its fetch stage, the sleeps between the attempts included,
\* holds neither the write lock of the database nor an open transaction: a lock
\* taken at that moment belongs to another process, inside its replace.
C22_FetchHoldsNoLock ==
  \A p \in Procs :
    pc[p] \in {"fetch", "sleep"} =>
      /\ lock # p
      /\ tx[p] = {}
      /\ lock # 0 => pc[lock] = "sr_insert"

\* a sync() sleeps between two attempts while the other one is inside its replace
C22_Witness ==
  /\ pc[1] = "sleep"
  /\ slept[1] = <<2, 4>>
  /\ lock = 2
  /\ tx[2] # {}

\* C23: when two sync() runs with non-empty datasets overlap, every change of the
\* issues table is the commit of one run's replace and leaves in the table the
\* complete dataset of that run, so that once both have finished the table is the
\* dataset of the run that committed last; the two replaces are never open
\* together, and the table is never a mixture of the two datasets.
C23_LastWriterWins ==
  /\ [][issues' # issues =>
          \E p \in Procs :
            /\ pc[p] = "sr_insert"
            /\ lock = p
            /\ lock' = 0
            /\ data[p] # <<>>
            /\ issues' = LastPerId(data[p])]_vars
  /\ [](Cardinality({p \in Procs : pc[p] = "sr_insert"}) <= 1)
  /\ [](\A p \in Procs : pc[p] = "sr_insert" <=> lock = p)

\* the second of two overlapping runs has committed its dataset over the first's
C23_Witness ==
  /\ pc[1] = "log"
  /\ pc[2] = "log"
  /\ sr_ret[1].kind = "returned"
  /\ sr_ret[2].kind = "returned"
  /\ data[1] # <<>>
  /\ issues = LastPerId(data[2])
  /\ LastPerId(data[1]) \cap LastPerId(data[2]) = {}

\* the texts of the variant table with blanks around them
PaddedKeys(k) == {a \o k \o b : a \in Blanks, b \in Blanks}

\* C24: normalize_progress always returns one of Done, In Progress, Pending,
\* Blocked, Unknown: the canonical value of the key when the input without the
\* blanks around it is a key of the variant table, and Unknown for every other
\* input, the empty text and an absent value included.
C24_NormalizeTotal ==
  ret.kind = "progress" =>
    /\ ret.v \in {"Done", "In Progress", "Pending", "Blocked", "Unknown"}
    /\ \A k \in DOMAIN PROGRESS_MAPPING :
         arg.v \in PaddedKeys(k) => ret.v = PROGRESS_MAPPING[k]
    /\ (\A k \in DOMAIN PROGRESS_MAPPING : arg.v \notin PaddedKeys(k)) =>
         ret.v = "Unknown"

\* a key with blanks on both sides has been normalized
C24_Witness ==
  /\ arg = [kind |-> "progress", v |-> "  In progress "]
  /\ ret = [kind |-> "progress", v |-> "In Progress"]

\* the spellings the variant table is said to cover
Spellings ==
  ("Done" :> {"Done", "DONE", "done"}) @@
  ("In Progress" :> {"In Progress", "IN PROGRESS", "in progress"}) @@
  ("Pending" :> {"Pending", "PENDING", "pending"}) @@
  ("Blocked" :> {"Blocked", "BLOCKED", "blocked", "Block", "BLOCK", "block"})

\* C25: for each of Done, In Progress, Pending and Blocked the variant table has
\* the standard, the all-caps and the all-lowercase spelling, and for Blocked also
\* 'block' in those casings: normalize_progress maps each of them to its
\* canonical value, so that "BLOCK" gives Blocked and "done" gives Done.
C25_AllCasingsCovered ==
  ret.kind = "progress" =>
    \A c \in DOMAIN Spellings : arg.v \in Spellings[c] => ret.v = c

\* the texts that write the number n
AllFieldTexts == UNION {FieldTexts(n) : n \in Fields}
NumberOf(t) == CHOOSE n \in Fields : t \in FieldTexts(n)

\* C26: parse_date tries month/day/4-digit-year, year-month-day,
\* month/day/2-digit-year and day/month/4-digit-year in this order and returns
\* the date of the first that parses: a text with slashes that reads both as
\* month/day and as day/month is the month/day date, and the day/month reading is
\* taken only when the month/day one is no date.
C26_MonthDayFirst ==
  ret.kind = "date" =>
    /\ \A ta, tb \in AllFieldTexts : \A y \in Years4 :
         arg.v = ta \o "/" \o tb \o "/" \o YearText(y) =>
           LET a == NumberOf(ta)
               b == NumberOf(tb)
           IN /\ ValidDate(y, a, b) => ret = DateOf(y, a, b)
              /\ (~ValidDate(y, a, b) /\ ValidDate(y, b, a)) => ret = DateOf(y, b, a)
              /\ (~ValidDate(y, a, b) /\ ~ValidDate(y, b, a)) => ret = NoDate
    /\ \A ta, tb \in AllFieldTexts : \A y \in Years2 :
         arg.v = ta \o "/" \o tb \o "/" \o YearText(y) =>
           LET a == NumberOf(ta)
               b == NumberOf(tb)
           IN IF ValidDate(Century(y), a, b)
              THEN ret = DateOf(Century(y), a, b)
              ELSE ret = NoDate
    /\ \A ta, tb \in AllFieldTexts : \A y \in Years4 :
         arg.v = YearText(y) \o "-" \o ta \o "-" \o tb =>
           LET a == NumberOf(ta)
               b == NumberOf(tb)
           IN IF ValidDate(y, a, b) THEN ret = DateOf(y, a, b) ELSE ret = NoDate

\* a text that reads both ways has been parsed
C26_Witness ==
  /\ arg = [kind |-> "date", v |-> "02/01/2026"]
  /\ ret = DateOf(2026, 2, 1)

\* the inputs that match none of the four formats
NonDates ==
  {None, NaN, "7"}
  \cup {a \o t \o b : a \in Blanks, b \in Blanks, t \in {"not a date", ""}}
  \cup {ta \o "-" \o tb \o "-" \o YearText(y) :
          ta \in AllFieldTexts, tb \in AllFieldTexts, y \in Years4 \cup Years2}
  \cup {"13/23/2026", "31/30/26", "13/01/26", "02/30/2026", "2026-13-01", "2026-02-30"}

\* C27: parse_date never raises: an absent or empty input, and an input that
\* matches none of the four formats, gives None, and every other result is a
\* date of the calendar, which None is not.
C27_NoDateNeverRaises ==
  ret.kind = "date" =>
    /\ ~ret.raised
    /\ arg.v \in NonDates => ret = NoDate
    /\ ret # NoDate => (~ret.none /\ ValidDate(ret.year, ret.month, ret.day))

\* a text that is no date has been parsed
C27_Witness ==
  /\ arg = [kind |-> "date", v |-> " not a date"]
  /\ ret = NoDate


\* C28: init_database is idempotent and non-destructive: every call, on a store
\* with no tables, with the tables of an older version or with the current
\* ones, completes with the whole schema in place (the error of adding a column
\* that is there already does not leave the function early), and no call
\* changes an issue row or a ledger record.
C28_InitIdempotent ==
  [][calls' = calls + 1 =>
       /\ schema' = CurrentSchema
       /\ issues' = issues
       /\ sync_log' = sync_log
       /\ (calls >= 1 => schema' = schema)]_vars

\* init_database has run twice on a store holding rows and ledger records
C28_Witness ==
  /\ calls >= 2
  /\ schema = CurrentSchema
  /\ issues # {}
  /\ sync_log # <<>>


\* C29: the reads change nothing: a step of get_all_issues, get_issues_count,
\* get_last_sync, search_issues, filter_issues, get_unique_values or
\* get_statistics leaves the issues table and the ledger as they were (and
\* takes no lock and opens no transaction that outlives it).
C29_ReadsChangeNothing ==
  [][(rd' # rd \/ arg' # arg) =>
       /\ issues' = issues
       /\ sync_log' = sync_log
       /\ lock' = lock
       /\ tx' = tx
       /\ schema' = schema]_vars

\* a read has returned rows of a store that holds issues and ledger records
C29_Witness ==
  /\ rd.kind \in {"all", "count", "last_sync", "search", "filter", "unique", "stats"}
  /\ rd.rows # <<>>
  /\ issues # {}
  /\ sync_log # <<>>

\* C30: get_last_sync returns None on an empty ledger and otherwise the record
\* the last log_sync call wrote, also when two calls follow each other within a
\* second.
C30_LastSyncIsLastWritten ==
  [][arg'.kind = "get_last_sync" /\ rd'.kind = "last_sync" =>
       rd'.rows = IF sync_log = <<>> THEN <<>> ELSE <<Last(sync_log)>>]_vars


\* C31: log_sync(count, status, message) either appends exactly one ledger
\* record holding those three values, or raises the storage fault to its caller
\* and appends nothing: it never returns normally without the record.
C31_LogSyncAppendsOrRaises ==
  [][calls' = calls + 1 =>
       IF ret'.raised
       THEN sync_log' = sync_log
       ELSE /\ Len(sync_log') = Len(sync_log) + 1
            /\ IsPrefix(sync_log, sync_log')
            /\ Last(sync_log').rows_synced = arg'.v.rows_synced
            /\ Last(sync_log').status = arg'.v.status
            /\ Last(sync_log').message = arg'.v.message]_vars

\* a log_sync call has raised after another one appended its record
C31_Witness ==
  /\ ret.kind = "log_sync"
  /\ ret.raised
  /\ Len(sync_log) = 1
  /\ calls = 2


\* C32: the command-line entry point exits with status 0 exactly when sync()
\* returned True, and with a non-zero status when sync() returned False.
C32_ExitStatusIsSyncResult ==
  pc[1] = "exited" /\ ret.kind = "exit" =>
    /\ (ret.status = 0 <=> result[1] = "True")
    /\ (result[1] = "False" => ret.status # 0)


\* the sum of the counts of a group
RECURSIVE SumOf(_)
SumOf(f) ==
  IF DOMAIN f = {} THEN 0
  ELSE LET k == CHOOSE x \in DOMAIN f : TRUE
       IN f[k] + SumOf([x \in DOMAIN f \ {k} |-> f[x]])

\* C33: on a store at rest, the bundle of get_statistics has total equal to
\* get_issues_count(), by_progress, by_category and by_owner counts that each
\* sum to total, and a by_problem_category group with no empty or null key that
\* counts exactly the rows with a non-empty problem_category.
C33_StatisticsAddUp ==
  rd.kind = "stats" =>
    LET by_progress == rd.rows[1]
        by_category == rd.rows[2]
        by_problem_category == rd.rows[3]
        by_owner == rd.rows[4]
        filled == {r \in issues : r.problem_category \notin {None, ""}}
    IN /\ rd.n = get_issues_count(issues)
       /\ SumOf(by_progress) = rd.n
       /\ SumOf(by_category) = rd.n
       /\ SumOf(by_owner) = rd.n
       /\ DOMAIN by_problem_category \cap {None, ""} = {}
       /\ DOMAIN by_problem_category = {r.problem_category : r \in filled}
       /\ \A v \in DOMAIN by_problem_category :
            by_problem_category[v] = Cardinality({r \in filled : r.problem_category = v})

\* statistics of a table with a row without progress and problem_category and
\* a row that has both
C33_Witness ==
  /\ rd.kind = "stats"
  /\ rd.n = 2
  /\ None \in DOMAIN rd.rows[1]
  /\ SumOf(rd.rows[3]) = 1
  /\ \E r \in issues : r.problem_category = ""


\* the keyword occurs in the cell, whatever the case of the letters
Occurs(keyword, cell) == cell # None /\ Infix(Lower(keyword), Lower(cell))

\* C34: search_issues(keyword) returns exactly the rows in which the keyword
\* occurs, case-insensitively, in at least one of issue, category, channel,
\* owner, reply_approach and problem_category, and no row when it occurs in none.
C34_SearchIsSubstringMatch ==
  arg.kind = "search_issues" /\ rd.kind = "search" =>
    rd.rows = OrderByIdDesc({r \in issues :
                               \E col \in SEARCH_COLUMNS \cap DOMAIN r :
                                 Occurs(arg.v, r[col])})


\* the day a date text of the sheet names, as a number that grows with time
DayOf(text) ==
  CASE text = "01/23/2026" -> 20260123
    [] text = "01/24/2026" -> 20260124
    [] text = "12/01/2025" -> 20251201

\* C35: filter_issues returns exactly the rows that satisfy all the predicates
\* supplied: equality on category, progress, owner and problem_category, and
\* date_from <= date <= date_to on the date; with no predicate, every row.
C35_FilterIsConjunction ==
  arg.kind = "filter_issues" /\ rd.kind = "filter" =>
    LET f == arg.v
    IN rd.rows =
         OrderByIdDesc({r \in issues :
                          /\ \A col \in EQUALITY_COLUMNS \cap DOMAIN r :
                               f[col] # None => r[col] = f[col]
                          /\ f.date_from # None => DayOf(f.date_from) <= DayOf(r.date)
                          /\ f.date_to # None => DayOf(r.date) <= DayOf(f.date_to)})


\* C36 as stated: after a sync() that returns True, rows_synced of the 'success'
\* record it appended is get_issues_count() at the end of the run.
C36_RowsSyncedIsCount ==
  \A p \in Procs :
    (pc[p] = "returned" /\ caller[p] = "sync" /\ result[p] = "True") =>
      /\ Last(sync_log).status = "success"
      /\ Last(sync_log).rows_synced = get_issues_count(issues)

\* C36 amended: after a sync() that returns True, rows_synced of the 'success'
\* record it appended is the number of rows transform_data produced;
\* get_issues_count() at the end of the run is the number of distinct ids among
\* them when there is at least one (so the two agree when the ids are pairwise
\* distinct), and the count of before the run when there is none.
C36_RowsSyncedIsBatchLen ==
  \A p \in Procs :
    (pc[p] = "returned" /\ caller[p] = "sync" /\ result[p] = "True") =>
      /\ Last(sync_log).status = "success"
      /\ Last(sync_log).rows_synced = Len(data[p])
      /\ data[p] # <<>> => get_issues_count(issues) = Cardinality(IdsOf(data[p]))
      /\ data[p] = <<>> => get_issues_count(issues) = get_issues_count(before_sync[p])

\* a sync of two rows with one id has returned True: the record says 2, the
\* store holds 1
C36_Witness ==
  /\ pc[1] = "returned"
  /\ caller[1] = "sync"
  /\ result[1] = "True"
  /\ Last(sync_log).rows_synced = 2
  /\ get_issues_count(issues) = 1


\* C37: a get_statistics call that runs while a sync replaces the table returns
\* a bundle computed from one dataset, the one of before or the one of after the
\* replace: in particular the by_progress counts sum to total.
C37_StatisticsFromOneDataset ==
  rd.kind = "stats" => SumOf(rd.rows[1]) = rd.n


\* C38: retry_on_error stops at the first attempt that succeeds: when attempt k
\* (k <= 3) is the first to succeed, the fetch has been invoked k times and k-1
\* sleeps have occurred (2s, then 4s), the records of attempt k are what
\* retry_on_error returns, no exception of an earlier attempt is propagated, and
\* no further attempt or sleep follows.
C38_StopsAtFirstSuccess ==
  /\ [](\A p \in Procs :
          pc[p] = "transform" =>
            /\ attempt[p] + 1 \in 1..MAX_RETRIES
            /\ Len(slept[p]) = attempt[p]
            /\ \A i \in 1..Len(slept[p]) : slept[p][i] = BASE_DELAY * (2 ^ (i - 1))
            /\ error_msg[p] = "")
  /\ [][\A p \in Procs :
          (pc[p] = "fetch" /\ pc'[p] = "transform") =>
            /\ raw_data'[p] \in RawBatches
            /\ attempt'[p] = attempt[p]
            /\ slept'[p] = slept[p]]_vars
  /\ [][\A p \in Procs :
          pc[p] = "transform" => pc'[p] \in {"transform", "replace"}]_vars

\* the second attempt of the fetch is the first to succeed
C38_Witness ==
  /\ pc[1] = "transform"
  /\ attempt[1] = 1
  /\ slept[1] = <<2>>
  /\ raw_data[1] # <<>>


\* C39: every sync() terminates: when each fetch attempt and each storage call
\* returns or raises, the run that has started eventually returns True (Done) or
\* False (Failed), after at most three fetch attempts and two sleeps, and it
\* never goes back to an earlier stage.
C39_SyncTerminates ==
  /\ (pc[1] = "init" ~> (pc[1] = "returned" /\ result[1] \in {"True", "False"}))
  /\ [](attempt[1] < MAX_RETRIES /\ Len(slept[1]) <= MAX_RETRIES - 1)
  /\ [][pc'[1] # pc[1] =>
          \/ Stage(pc'[1]) > Stage(pc[1])
          \/ {pc[1], pc'[1]} = {"fetch", "sleep"}
          \/ pc[1] = "returned"]_vars

====
